---------------------------- MODULE Spec2Model ----------------------------
(***************************************************************************)
(* Tariff evaluation engine of minvoker/tariff-calculator                  *)
(* (src/current/src/core/services/calc.py, timeband.py).                   *)
(*                                                                         *)
(* Each engine function is modelled as an operator computed the way the    *)
(* Python code computes it, and exercised by a specification whose Init    *)
(* draws the function's inputs from bounded sets and whose action applies  *)
(* the function and records what it returned (or that it raised).          *)
(*                                                                         *)
(*   SpecRate  _select_rate_value                                          *)
(*   SpecBand  assign_band                                                 *)
(*   SpecEval  _safe_eval                                                  *)
(*   Spec      calculate_bill over a store of tariff versions and readings *)
(*   SpecParse _parse_rate                                                 *)
(*   SpecSeason, SpecBuckets, SpecVars, SpecMix                            *)
(*             calculate_bill on seasonal components / on banded readings  *)
(*             / on the variables exposed to formulas / on components that *)
(*             are billed and components that are passed over              *)
(*   SpecTwice compute_checksum and calculate_bill run twice               *)
(*   SpecStore the API handlers calculate_and_store and get_bill, one at   *)
(*             a time, over the calc_runs table                            *)
(*   SpecWriters                                                           *)
(*             two upsert_calc_run calls whose steps interleave            *)
(*   SpecRace  calculate_and_store calls while readings are inserted       *)
(*   SpecResample                                                          *)
(*             resample_to_30min (core/helperfunctions.py) on energy rows  *)
(*                                                                         *)
(* Python dicts are records; a key that is absent (or JSON null, which     *)
(* dict.get cannot tell from absent) is a field missing from the record.   *)
(* Python floats are modelled by exact integers / rationals.               *)
(***************************************************************************)
EXTENDS Integers, Sequences, FiniteSets, TLC

VARIABLES
    rate_schedule,  \* _select_rate_value: argument rate_schedule (list of tiers)
    usage,          \* _select_rate_value: argument usage
    rate_val,       \* _select_rate_value: what the call returned
    ts,             \* assign_band: argument ts (a local datetime)
    canonical,      \* assign_band: argument canonical (the tariff document)
    band_id,        \* assign_band: what the call returned
    expr,           \* _safe_eval: argument expr, as the tree ast.parse builds from it
    variables,      \* _safe_eval: argument variables
    eval_out,       \* _safe_eval: what the call returned
    tariff_versions,\* the tariff_versions table: version id -> canonical_json
    meter_readings, \* the meter_readings table: a set of rows
    req,            \* calculate_bill: customer_id, tariff_version_id, start, end
    result,         \* calculate_bill: what the call returned
    parse_args,     \* _parse_rate: arguments unit, value, days, billing_start
    parse_out,      \* _parse_rate: what the call returned
    runs,           \* what successive runs of compute_checksum + calculate_bill returned
    calc_runs,      \* the calc_runs table: rows in id order (row i has id i)
    call,           \* the API call handled last: handler, request, response
    writers,        \* upsert_calc_run calls in progress: position, arguments, row read
    overlapped,     \* history: some call read calc_runs while another was between read and commit
    df,             \* resample_to_30min: argument df, its rows in order
    resampled       \* resample_to_30min: what the call returned

rateVars == <<rate_schedule, usage, rate_val>>
bandVars == <<ts, canonical, band_id>>
evalVars == <<expr, variables, eval_out>>
billVars == <<tariff_versions, meter_readings, req, result>>
parseVars == <<parse_args, parse_out>>
storeVars == <<runs, calc_runs, call, writers, overlapped>>
resampleVars == <<df, resampled>>

vars == <<rate_schedule, usage, rate_val, ts, canonical, band_id, expr, variables, eval_out,
          tariff_versions, meter_readings, req, result,
          parse_args, parse_out, runs, calc_runs, call, writers, overlapped,
          df, resampled>>

\* A call that has not happened yet / that returned v / that raised.
Pending == [status |-> "pending"]
Returned(v) == [status |-> "ok", val |-> v]
Raised == [status |-> "raise"]

-----------------------------------------------------------------------------
(* Bounds of the input families.                                           *)

MaxTiers == 2   \* longest rate_schedule drawn
MaxBound == 2   \* tier bounds ('from', 'to') are drawn from 0..MaxBound

\* Tier values drawn; two suffice to tell the tiers of a schedule apart.
TierValues == {10, 20}

\* Usages drawn: every bound, and one usage above all of them.
Usages == 0..(MaxBound + 1)

-----------------------------------------------------------------------------
(* Rate resolver: calc.py _select_rate_value                               *)

Has(d, k) == k \in DOMAIN d

\* tier.get('value', 0.0)
TierValue(tier) == IF Has(tier, "value") THEN tier.value ELSE 0

\* The three tests of the loop body, calc.py lines 211-219.
TierApplies(tier, u) ==
    LET frmNone == ~Has(tier, "from")
        toNone  == ~Has(tier, "to")
    IN  \/ frmNone /\ (toNone \/ u <= tier.to)
        \/ ~frmNone /\ toNone /\ u >= tier.from
        \/ ~frmNone /\ ~toNone /\ u >= tier.from /\ u < tier.to

\* Index of the tier at which the for loop breaks, 0 when it runs to the end.
FirstApplicable(rs, u) ==
    IF \E i \in 1..Len(rs) : TierApplies(rs[i], u)
    THEN CHOOSE i \in 1..Len(rs) :
            /\ TierApplies(rs[i], u)
            /\ \A j \in 1..(i - 1) : ~TierApplies(rs[j], u)
    ELSE 0

\* Mutant: no single-tier shortcut and no fallback (0.0 when no tier applies).
SelectRateValue_NoFallback(rs, u) ==
    IF FirstApplicable(rs, u) # 0 THEN TierValue(rs[FirstApplicable(rs, u)]) ELSE 0

\* Mutant: the fallback of the docstring ("If no tiers match, return the first value").
SelectRateValue_FirstFallback(rs, u) ==
    IF Len(rs) = 0 THEN 0
    ELSE IF Len(rs) = 1 THEN TierValue(rs[1])
    ELSE IF FirstApplicable(rs, u) # 0 THEN TierValue(rs[FirstApplicable(rs, u)])
    ELSE TierValue(rs[1])

SelectRateValue(rs, u) ==
    IF Len(rs) = 0 THEN 0
    ELSE IF Len(rs) = 1 THEN TierValue(rs[1])
    ELSE IF FirstApplicable(rs, u) # 0 THEN TierValue(rs[FirstApplicable(rs, u)])
    ELSE TierValue(rs[Len(rs)])

\* Tiers drawn: 'from' and 'to' each absent or in 0..MaxBound, 'value' present.
Tiers ==
    LET B == 0..MaxBound
    IN  [from : B, to : B, value : TierValues]
        \cup [from : B, value : TierValues]
        \cup [to : B, value : TierValues]
        \cup [value : TierValues]

SeqsUpTo(S, n) == UNION {[1..k -> S] : k \in 0..n}

RateSchedules == SeqsUpTo(Tiers, MaxTiers)

\* The variables of a function that a specification does not exercise.
IdleRate == rate_schedule = <<>> /\ usage = 0 /\ rate_val = Pending
IdleBand == ts = [date |-> 0, hour |-> 0, minute |-> 0] /\ canonical = [time_bands |-> <<>>] /\ band_id = Pending
IdleEval == expr = [k |-> "Constant", n |-> 0] /\ variables = <<>> /\ eval_out = Pending
IdleBill == tariff_versions = <<>> /\ meter_readings = {} /\ req = <<>> /\ result = Pending
IdleParse == parse_args = <<>> /\ parse_out = Pending
IdleStore == runs = <<>> /\ calc_runs = <<>> /\ call = Pending /\ writers = <<>> /\ overlapped = FALSE
IdleResample == df = <<>> /\ resampled = Pending

InitRate ==
    /\ rate_schedule \in RateSchedules
    /\ usage \in Usages
    /\ rate_val = Pending
    /\ IdleBand
    /\ IdleEval
    /\ IdleBill
    /\ IdleParse
    /\ IdleResample
    /\ IdleStore

\* rate_val = _select_rate_value(rate_schedule, usage)
SelectRate ==
    /\ rate_val = Pending
    /\ rate_val' = Returned(SelectRateValue(rate_schedule, usage))
    /\ UNCHANGED <<rate_schedule, usage, bandVars, evalVars, billVars, parseVars, storeVars, resampleVars>>

NextRate == SelectRate

SpecRate == InitRate /\ [][NextRate]_vars


-----------------------------------------------------------------------------
(* Time-band classifier: timeband.py                                       *)
(*                                                                         *)
(* A datetime is [date, hour, minute]; date is a day number, day 0 being a *)
(* Monday.  A 'YYYY-MM-DD' string of the tariff is <<d>> when it parses to *)
(* day d and <<>> when strptime rejects it.  An 'HH:MM' string is the      *)
(* sequence of its characters, a digit as itself and ':' as 10 (it sorts   *)
(* after every digit), compared lexicographically as Python compares str.  *)

MaxBands == 2   \* longest time_bands list drawn
MaxDay == 3     \* timestamps and date ranges lie in days 0..MaxDay

\* ts.strftime("%H:%M")
FormatHHMM(h, m) == <<h \div 10, h % 10, 10, m \div 10, m % 10>>

\* Python's str < str: the first differing character decides, a proper prefix is smaller.
RECURSIVE StrLess(_, _)
StrLess(a, b) ==
    IF b = <<>> THEN FALSE
    ELSE IF a = <<>> THEN TRUE
    ELSE IF Head(a) # Head(b) THEN Head(a) < Head(b)
    ELSE StrLess(Tail(a), Tail(b))

StrLessEq(a, b) == a = b \/ StrLess(a, b)

\* str.lower() on the day names, band ids and applies_to tags that occur.
Lower(s) ==
    CASE s \in {"Mon", "MON"} -> "mon"
      [] s \in {"Tue", "TUE"} -> "tue"
      [] s \in {"Wed", "WED"} -> "wed"
      [] s \in {"Thu", "THU"} -> "thu"
      [] s \in {"Fri", "FRI"} -> "fri"
      [] s \in {"Sat", "SAT"} -> "sat"
      [] s \in {"Sun", "SUN"} -> "sun"
      [] s \in {"All", "ALL"} -> "all"
      [] s \in {"Peak", "PEAK"} -> "peak"
      [] s \in {"Shoulder", "SHOULDER"} -> "shoulder"
      [] s \in {"Usage_Peak", "USAGE_PEAK"} -> "usage_peak"
      [] s = "RETAIL_PEAK" -> "retail_peak"
      [] s = "Network_Peak" -> "network_peak"
      [] s = "USAGE_SHOULDER" -> "usage_shoulder"
      [] s = "Retail_Shoulder" -> "retail_shoulder"
      [] s = "Network_Shoulder" -> "network_shoulder"
      [] s = "OFF_PEAK" -> "off_peak"
      [] s = "Weekend" -> "weekend"
      [] s = "Demand" -> "demand"
      [] s = "Incentive_Demand" -> "incentive_demand"
      [] s = "Usage_Total" -> "usage_total"
      [] OTHER -> s

\* ts.strftime("%a").lower()[:3]
DayAbbr(t) == Lower(<<"Mon", "Tue", "Wed", "Thu", "Fri", "Sat", "Sun">>[(t.date % 7) + 1])

\* datetime.strptime(r.get(k), "%Y-%m-%d") succeeds (a missing key or a malformed string raises).
DateParses(r, k) == Has(r, k) /\ r[k] # <<>>

\* timeband.py _in_date_ranges: a range that fails to parse is skipped.
InDateRanges(ts_date, date_ranges) ==
    \E i \in 1..Len(date_ranges) :
        LET r == date_ranges[i]
        IN  /\ DateParses(r, "from")
            /\ DateParses(r, "to")
            /\ r.from[1] <= ts_date
            /\ ts_date <= r.to[1]

\* Mutant: the end of a span taken inclusively.
SpanMatches_ToInclusive(span, time_str) ==
    /\ Has(span, "from")
    /\ Has(span, "to")
    /\ StrLessEq(span.from, time_str)
    /\ StrLessEq(time_str, span.to)

\* The span test of the inner loop, timeband.py lines 71-78.
SpanMatches(span, time_str) ==
    /\ Has(span, "from")
    /\ Has(span, "to")
    /\ StrLessEq(span.from, time_str)
    /\ StrLess(time_str, span.to)

\* The band reaches 'return band.get("id", "off_peak")' for t: none of the
\* loop's 'continue's is taken and some span matches.
BandReturns(band, t) ==
    LET date_ranges == IF Has(band, "date_ranges") THEN band.date_ranges ELSE <<>>
        days == IF Has(band, "days") THEN band.days ELSE <<>>
        days_list == [i \in 1..Len(days) |-> Lower(days[i])]
        times == IF Has(band, "times") THEN band.times ELSE <<>>
        InList(x) == \E i \in 1..Len(days_list) : days_list[i] = x
    IN  /\ date_ranges # <<>> => InDateRanges(t.date, date_ranges)
        /\ InList("all") \/ InList(DayAbbr(t))
        /\ \E i \in 1..Len(times) : SpanMatches(times[i], FormatHHMM(t.hour, t.minute))

\* timeband.py assign_band
AssignBand(t, canon) ==
    LET bands == IF Has(canon, "time_bands") THEN canon.time_bands ELSE <<>>
    IN  IF \E i \in 1..Len(bands) : BandReturns(bands[i], t)
        THEN LET first == CHOOSE i \in 1..Len(bands) :
                            /\ BandReturns(bands[i], t)
                            /\ \A j \in 1..(i - 1) : ~BandReturns(bands[j], t)
             IN  IF Has(bands[first], "id") THEN bands[first].id ELSE "off_peak"
        ELSE "off_peak"

\* Inputs drawn.
BandIdAt == <<"peak", "shoulder", "offpeak">>

DaysDrawn == {<<"All">>, <<"Mon", "TUE">>}

TimesDrawn ==
    { <<[from |-> FormatHHMM(9, 0), to |-> FormatHHMM(17, 0)]>>,
      <<[from |-> FormatHHMM(17, 0), to |-> FormatHHMM(9, 0)]>>,
      <<[from |-> FormatHHMM(0, 0)], [from |-> FormatHHMM(17, 0), to |-> FormatHHMM(24, 0)]>> }

DateRangesDrawn ==
    { <<>>,
      <<[from |-> <<1>>, to |-> <<2>>]>>,
      <<[from |-> <<>>, to |-> <<MaxDay>>], [from |-> <<MaxDay>>, to |-> <<MaxDay>>]>> }

\* The bands that may stand at position i of time_bands.
BandsAt(i) ==
    [id : {BandIdAt[i]}, days : DaysDrawn, times : TimesDrawn]
    \cup [id : {BandIdAt[i]}, days : DaysDrawn, times : TimesDrawn, date_ranges : DateRangesDrawn]

TimeBandLists ==
    UNION {{bs \in [1..k -> UNION {BandsAt(i) : i \in 1..k}] : \A i \in 1..k : bs[i] \in BandsAt(i)} : k \in 0..MaxBands}

Timestamps ==
    [date : 0..MaxDay, hour : {8, 9, 16, 17}, minute : {0, 30}]

InitBand ==
    /\ ts \in Timestamps
    /\ canonical \in [time_bands : TimeBandLists]
    /\ band_id = Pending
    /\ IdleRate
    /\ IdleEval
    /\ IdleBill
    /\ IdleParse
    /\ IdleResample
    /\ IdleStore

\* band_id = assign_band(ts, canonical)
AssignBandCall ==
    /\ band_id = Pending
    /\ band_id' = Returned(AssignBand(ts, canonical))
    /\ UNCHANGED <<ts, canonical, rateVars, evalVars, billVars, parseVars, storeVars, resampleVars>>

NextBand == AssignBandCall

SpecBand == InitBand /\ [][NextBand]_vars


-----------------------------------------------------------------------------
(* Expression evaluator: calc.py _safe_eval                                *)
(*                                                                         *)
(* expr is the syntax tree ast.parse(expr, mode='eval') yields, a record   *)
(* [k |-> <node class>, ...].  A Python value is                           *)
(*   [t |-> "num", n, d]   the number n/d (int, float or bool; True is 1), *)
(*   [t |-> "func", name]  a whitelisted function object,                  *)
(*   [t |-> "module"]      the math module,                                *)
(*   [t |-> "str", date]   the string strftime("%Y-%m-%d") gives for a     *)
(*                         date (the billing_period_* variables),          *)
(* and Exc stands for an exception raised while evaluating.  Floats are    *)
(* exact rationals: rounding error, overflow, inf and nan are not modelled;*)
(* nor is arithmetic on strings (str + str, str * int), which no           *)
(* expression drawn performs.                                              *)

MaxDepth == 2   \* nesting depth of the expressions drawn

RECURSIVE GCD(_, _)
GCD(a, b) == IF b = 0 THEN a ELSE GCD(b, a % b)

Abs(x) == IF x < 0 THEN -x ELSE x

\* The number n/d in lowest terms, d > 0.
Q(n, d) ==
    LET g == GCD(Abs(n), Abs(d))
        sgn == IF d < 0 THEN -1 ELSE 1
    IN  [t |-> "num", n |-> (sgn * n) \div g, d |-> (sgn * d) \div g]

Int2Q(i) == [t |-> "num", n |-> i, d |-> 1]
Bool2Q(b) == IF b THEN Int2Q(1) ELSE Int2Q(0)

Exc == [t |-> "exc"]

IsNum(v) == v.t = "num"

QAdd(a, b) == Q(a.n * b.d + b.n * a.d, a.d * b.d)
QSub(a, b) == Q(a.n * b.d - b.n * a.d, a.d * b.d)
QMul(a, b) == Q(a.n * b.n, a.d * b.d)
QDiv(a, b) == Q(a.n * b.d, a.d * b.n)
QLess(a, b) == a.n * b.d < b.n * a.d
QFloor(a) == a.n \div a.d      \* TLA+ \div rounds toward minus infinity, d > 0

\* Python's a % b on numbers: a - b * floor(a / b).
QMod(a, b) == QSub(a, QMul(b, Int2Q(QFloor(QDiv(a, b)))))

RECURSIVE QPowNat(_, _)
QPowNat(a, e) == IF e = 0 THEN Int2Q(1) ELSE QMul(a, QPowNat(a, e - 1))

\* bool(v): a number is true when non-zero, every other object drawn is true.
Truthy(v) == IF IsNum(v) THEN v.n # 0 ELSE TRUE

\* The names the evaluator resolves to functions: min, max, round and the
\* callables of math (those the model gives a meaning to).
AllowedFuncs == {"min", "max", "round", "floor", "ceil", "fabs"}

\* left <op> right of a BinOp, calc.py lines 78-89; an operator outside the six
\* falls through every later isinstance test to the final raise (line 139).
ApplyBinOp(op, l, r) ==
    IF op \notin {"Add", "Sub", "Mult", "Div", "Mod", "Pow"} THEN Exc
    ELSE IF ~(IsNum(l) /\ IsNum(r)) THEN Exc                       \* TypeError
    ELSE CASE op = "Add" -> QAdd(l, r)
           [] op = "Sub" -> QSub(l, r)
           [] op = "Mult" -> QMul(l, r)
           [] op = "Div" -> IF r.n = 0 THEN Exc ELSE QDiv(l, r)      \* ZeroDivisionError
           [] op = "Mod" -> IF r.n = 0 THEN Exc ELSE QMod(l, r)
           [] op = "Pow" ->
                IF r.d # 1 THEN Exc                                  \* not a rational: never drawn
                ELSE IF r.n >= 0 THEN QPowNat(l, r.n)
                ELSE IF l.n = 0 THEN Exc
                ELSE QDiv(Int2Q(1), QPowNat(l, -r.n))

\* calc.py lines 92-95; Not and Invert fall through to the final raise.
ApplyUnaryOp(op, v) ==
    IF op \notin {"UAdd", "USub"} THEN Exc
    ELSE IF ~IsNum(v) THEN Exc
    ELSE IF op = "UAdd" THEN v ELSE QSub(Int2Q(0), v)

\* One pair of a comparison, calc.py lines 117-130.
ApplyCompare(op, l, r) ==
    IF op \notin {"Lt", "LtE", "Gt", "GtE", "Eq", "NotEq"} THEN Exc    \* ValueError, line 130
    ELSE IF op = "Eq" THEN Bool2Q(l = r)
    ELSE IF op = "NotEq" THEN Bool2Q(l # r)
    ELSE IF l.t = "str" /\ r.t = "str" THEN                         \* 'YYYY-MM-DD' sorts as its date
            CASE op = "Lt" -> Bool2Q(l.date < r.date)
              [] op = "LtE" -> Bool2Q(l.date <= r.date)
              [] op = "Gt" -> Bool2Q(l.date > r.date)
              [] op = "GtE" -> Bool2Q(l.date >= r.date)
    ELSE IF ~(IsNum(l) /\ IsNum(r)) THEN Exc                       \* TypeError
    ELSE CASE op = "Lt" -> Bool2Q(QLess(l, r))
           [] op = "LtE" -> Bool2Q(~QLess(r, l))
           [] op = "Gt" -> Bool2Q(QLess(r, l))
           [] op = "GtE" -> Bool2Q(~QLess(l, r))

\* Smallest / largest of a non-empty sequence of numbers.
QMin(vs) == vs[CHOOSE i \in 1..Len(vs) : \A j \in 1..Len(vs) : ~QLess(vs[j], vs[i])]
QMax(vs) == vs[CHOOSE i \in 1..Len(vs) : \A j \in 1..Len(vs) : ~QLess(vs[i], vs[j])]

\* round(x): to the nearest integer, ties to even.
QRound(a) ==
    LET f == QFloor(a)
        twice == QSub(QMul(a, Int2Q(2)), Int2Q(2 * f))   \* 2 * (a - f), in [0, 2)
    IN  IF QLess(twice, Int2Q(1)) THEN f
        ELSE IF QLess(Int2Q(1), twice) THEN f + 1
        ELSE IF f % 2 = 0 THEN f ELSE f + 1

\* func(*args), calc.py line 108, for positional arguments.
ApplyCall(f, args) ==
    IF f.t # "func" THEN Exc                                        \* not callable
    ELSE IF \E i \in 1..Len(args) : ~IsNum(args[i]) THEN Exc
    ELSE CASE f.name \in {"min", "max"} ->
                IF Len(args) < 2 THEN Exc                           \* a lone number is not iterable
                ELSE IF f.name = "min" THEN QMin(args) ELSE QMax(args)
           [] f.name = "round" ->
                IF Len(args) # 1 THEN Exc                           \* round(x, n) is not drawn
                ELSE Int2Q(QRound(args[1]))
           [] f.name = "floor" -> IF Len(args) # 1 THEN Exc ELSE Int2Q(QFloor(args[1]))
           [] f.name = "ceil" -> IF Len(args) # 1 THEN Exc ELSE Int2Q(-QFloor(QSub(Int2Q(0), args[1])))
           [] f.name = "fabs" -> IF Len(args) # 1 THEN Exc ELSE Q(Abs(args[1].n), args[1].d)

\* calc.py lines 96-103.
LookupName(id, env) ==
    IF id \in DOMAIN env THEN env[id]
    ELSE IF id \in AllowedFuncs THEN [t |-> "func", name |-> id]
    ELSE IF id = "math" THEN [t |-> "module"]
    ELSE Exc

\* calc.py lines 113-132: every comparator is evaluated and compared, in order,
\* and the pairs' results are and-ed at the end; an exception in any ends it.
ChainResult(vals, ops) ==
    IF \E i \in 1..Len(vals) : vals[i] = Exc /\ \A j \in 1..(i - 1) : vals[j] # Exc
    THEN Exc
    ELSE LET pair(i) == ApplyCompare(ops[i], vals[i], vals[i + 1])
         IN  IF \E i \in 1..Len(ops) : pair(i) = Exc THEN Exc
             ELSE Bool2Q(\A i \in 1..Len(ops) : Truthy(pair(i)))

\* calc.py _safe_eval._eval, lines 68-139.
RECURSIVE Eval(_, _)
Eval(node, env) ==
    CASE node.k = "Constant" -> Int2Q(node.n)
      [] node.k = "BinOp" ->
            LET left == Eval(node.left, env)
                right == Eval(node.right, env)
            IN  IF left = Exc \/ right = Exc THEN Exc ELSE ApplyBinOp(node.op, left, right)
      [] node.k = "UnaryOp" ->
            LET operand == Eval(node.operand, env)
            IN  IF operand = Exc THEN Exc ELSE ApplyUnaryOp(node.op, operand)
      [] node.k = "Name" -> LookupName(node.id, env)
      [] node.k = "Call" ->
            LET func == Eval(node.func, env)
                args == [i \in 1..Len(node.args) |-> Eval(node.args[i], env)]
            IN  IF func = Exc \/ \E i \in 1..Len(args) : args[i] = Exc THEN Exc
                ELSE ApplyCall(func, args)
      [] node.k = "IfExp" ->
            LET cond == Eval(node.test, env)
            IN  IF cond = Exc THEN Exc
                ELSE IF Truthy(cond) THEN Eval(node.body, env)
                ELSE Eval(node.orelse, env)
      [] node.k = "Compare" ->
            ChainResult(<<Eval(node.left, env)>>
                            \o [i \in 1..Len(node.comparators) |-> Eval(node.comparators[i], env)],
                        node.ops)
      [] node.k = "BoolOp" ->
            LET values == [i \in 1..Len(node.values) |-> Eval(node.values[i], env)]
            IN  IF \E i \in 1..Len(values) : values[i] = Exc THEN Exc
                ELSE IF node.op = "And" THEN Bool2Q(\A i \in 1..Len(values) : Truthy(values[i]))
                ELSE Bool2Q(\E i \in 1..Len(values) : Truthy(values[i]))
      [] OTHER -> Exc                                               \* line 139

\* calc.py _safe_eval: float(_eval(parsed)); float() of a function, a module or
\* a date string raises.
SafeEval(node, env) ==
    LET v == Eval(node, env)
    IN  IF v = Exc \/ ~IsNum(v) THEN Raised ELSE Returned(v)

\* Expressions drawn.
Constant(n) == [k |-> "Constant", n |-> n]
Name(id) == [k |-> "Name", id |-> id]
BinOp(l, op, r) == [k |-> "BinOp", left |-> l, op |-> op, right |-> r]
UnaryOp(op, e) == [k |-> "UnaryOp", op |-> op, operand |-> e]
IfExp(test, body, orelse) == [k |-> "IfExp", test |-> test, body |-> body, orelse |-> orelse]
Compare(l, ops, cs) == [k |-> "Compare", left |-> l, ops |-> ops, comparators |-> cs]
BoolOp(op, vs) == [k |-> "BoolOp", op |-> op, values |-> vs]
Call(f, args) == [k |-> "Call", func |-> f, args |-> args]

\* Leaves: two literals, a variable, an unknown name, a function name, and two
\* node classes the evaluator has no case for.
Leaves ==
    { Constant(0), Constant(2), Name("rate"), Name("foo"), Name("min"),
      [k |-> "Attribute"], [k |-> "Lambda"] }

\* The nodes with e as one operand and literals as the others.
Around(e) ==
    { BinOp(e, "Add", Constant(2)), BinOp(e, "Div", Constant(2)), BinOp(e, "Div", Constant(0)),
      BinOp(Constant(2), "Div", e), BinOp(e, "FloorDiv", Constant(2)),
      UnaryOp("USub", e), UnaryOp("Not", e),
      IfExp(e, Constant(2), Constant(0)),
      IfExp(Constant(2), e, Constant(0)), IfExp(Constant(0), e, Constant(2)),
      IfExp(Constant(2), Constant(2), e), IfExp(Constant(0), Constant(2), e),
      Compare(e, <<"Lt">>, <<Constant(2)>>), Compare(Constant(2), <<"Eq">>, <<e>>),
      Compare(Constant(2), <<"Lt", "Lt">>, <<Constant(0), e>>),
      Compare(e, <<"In">>, <<Constant(2)>>),
      BoolOp("And", <<Constant(0), e>>), BoolOp("Or", <<Constant(2), e>>),
      Call(Name("min"), <<e, Constant(2)>>), Call(e, <<Constant(2)>>) }

RECURSIVE ExprsOfDepth(_)
ExprsOfDepth(dep) ==
    IF dep = 0 THEN Leaves
    ELSE Leaves \cup UNION {Around(e) : e \in ExprsOfDepth(dep - 1)}

InitEval ==
    /\ expr \in ExprsOfDepth(MaxDepth)
    /\ variables \in {[rate |-> Int2Q(0)], [rate |-> Int2Q(5)]}
    /\ eval_out = Pending
    /\ IdleRate
    /\ IdleBand
    /\ IdleBill
    /\ IdleParse
    /\ IdleResample
    /\ IdleStore

\* eval_out = _safe_eval(expr, variables), or the exception it raised
SafeEvalCall ==
    /\ eval_out = Pending
    /\ eval_out' = SafeEval(expr, variables)
    /\ UNCHANGED <<expr, variables, rateVars, bandVars, billVars, parseVars, storeVars, resampleVars>>

NextEval == SafeEvalCall

SpecEval == InitEval /\ [][NextEval]_vars


-----------------------------------------------------------------------------
(* Unit conversion: calc.py _parse_rate                                    *)
(*                                                                         *)
(* A unit string is the sequence of its characters.  Day 0 is 2024-01-01.  *)

UpperCase == <<"A", "B", "C", "D", "E", "F", "G", "H", "I", "J", "K", "L", "M",
               "N", "O", "P", "Q", "R", "S", "T", "U", "V", "W", "X", "Y", "Z">>
LowerCase == <<"a", "b", "c", "d", "e", "f", "g", "h", "i", "j", "k", "l", "m",
               "n", "o", "p", "q", "r", "s", "t", "u", "v", "w", "x", "y", "z">>

LowerChar(c) ==
    IF \E i \in 1..Len(UpperCase) : UpperCase[i] = c
    THEN LowerCase[CHOOSE i \in 1..Len(UpperCase) : UpperCase[i] = c]
    ELSE c

\* unit.lower()
StrLower(u) == [i \in 1..Len(u) |-> LowerChar(u[i])]

\* unit.strip(): leading and trailing blanks removed.
RECURSIVE StrStrip(_)
StrStrip(u) ==
    IF u = <<>> THEN u
    ELSE IF Head(u) = " " THEN StrStrip(Tail(u))
    ELSE IF u[Len(u)] = " " THEN StrStrip(SubSeq(u, 1, Len(u) - 1))
    ELSE u

StartsWith(u, pre) == Len(u) >= Len(pre) /\ SubSeq(u, 1, Len(pre)) = pre
EndsWith(u, suf) == Len(u) >= Len(suf) /\ SubSeq(u, Len(u) - Len(suf) + 1, Len(u)) = suf

\* (year, month) of a day number (the proleptic Gregorian calendar of datetime.date).
YearMonth(dayno) ==
    LET z == dayno + 739191                    \* days from 0000-03-01 to 2024-01-01
        era == z \div 146097
        doe == z - era * 146097
        yoe == (doe - doe \div 1460 + doe \div 36524 - doe \div 146096) \div 365
        doy == doe - (365 * yoe + yoe \div 4 - yoe \div 100)
        mp == (5 * doy + 2) \div 153
        m == IF mp < 10 THEN mp + 3 ELSE mp - 9
        y == yoe + era * 400 + (IF m <= 2 THEN 1 ELSE 0)
    IN  [year |-> y, month |-> m]

\* calendar.monthrange(year, month)[1]
MonthRange(year, month) ==
    IF month = 2
    THEN IF year % 4 = 0 /\ (year % 100 # 0 \/ year % 400 = 0) THEN 29 ELSE 28
    ELSE IF month \in {4, 6, 9, 11} THEN 30 ELSE 31

\* Mutant: the value is never converted from cents.
ParseRate_NoCents(unit, value, days, billing_start) ==
    IF unit = <<>> THEN Int2Q(value)
    ELSE LET u == StrLower(StrStrip(unit[1]))
             ym == YearMonth(billing_start)
         IN  IF EndsWith(u, <<"/", "d", "a", "y">>) \/ EndsWith(u, <<"/", "k", "w", "h">>)
             THEN Int2Q(value)
             ELSE IF EndsWith(u, <<"/", "m", "t", "h">>) \/ EndsWith(u, <<"/", "m", "o", "n", "t", "h">>)
                  THEN QMul(Int2Q(value), Q(days, MonthRange(ym.year, ym.month)))
             ELSE IF EndsWith(u, <<"/", "y", "e", "a", "r">>) THEN QMul(Int2Q(value), Q(days, 365))
             ELSE Int2Q(value)

\* calc.py _parse_rate; unit is <<u>> for the string u and <<>> for None, value
\* the number _select_rate_value returned, billing_start a day number.
ParseRate(unit, value, days, billing_start) ==
    IF unit = <<>> THEN Int2Q(value)
    ELSE LET lowered == StrLower(StrStrip(unit[1]))
             cents == StartsWith(lowered, <<"c", "/">>)
             rate == IF cents THEN Q(value, 100) ELSE Int2Q(value)
             u == IF cents THEN SubSeq(lowered, 3, Len(lowered)) ELSE lowered
             ym == YearMonth(billing_start)
         IN  IF EndsWith(u, <<"/", "d", "a", "y">>) THEN rate
             ELSE IF EndsWith(u, <<"/", "k", "w", "h">>) THEN rate
             ELSE IF EndsWith(u, <<"/", "m", "t", "h">>) \/ EndsWith(u, <<"/", "m", "o", "n", "t", "h">>)
                  THEN QMul(rate, Q(days, MonthRange(ym.year, ym.month)))
             ELSE IF EndsWith(u, <<"/", "m", "e", "t", "e", "r", "/", "y", "e", "a", "r">>)
                     \/ EndsWith(u, <<"/", "y", "e", "a", "r">>)
                  THEN QMul(rate, Q(days, 365))
             ELSE rate


\* Inputs drawn.
MaxPeriodDays == 16   \* longest billing period drawn, in days

UnitsDrawn ==
    { <<>>,                                                            \* None
      <<<<"c", "/", "k", "W", "h">>>>,                                 \* 'c/kWh'
      <<<<" ", "C", "/", "K", "W", "H", " ">>>>,                       \* ' C/KWH '
      <<<<"c", " ", "/", " ", "k", "W", "h">>>>,                       \* 'c / kWh'
      <<<<"$", "/", "k", "W", "h">>>>,                                 \* '$/kWh'
      <<<<"c", "/", "d", "a", "y">>>>,                                 \* 'c/day'
      <<<<"$", "/", "D", "a", "y">>>>,                                 \* '$/Day'
      <<<<"$", "/", "k", "V", "A", "/", "M", "t", "h">>>>,             \* '$/kVA/Mth'
      <<<<"$", "/", "k", "V", "A", " ", "/", " ", "M", "t", "h">>>>,   \* '$/kVA / Mth'
      <<<<"c", "/", "k", "V", "A", "/", "m", "o", "n", "t", "h">>>>,   \* 'c/kVA/month'
      <<<<"$", "/", "m", "e", "t", "e", "r", "/", "y", "e", "a", "r">>>>,   \* '$/meter/year'
      <<<<"c", "/", "Y", "E", "A", "R">>>>,                            \* 'c/YEAR'
      <<<<"c", "/", "u", "n", "i", "t">>>>,                            \* 'c/unit'
      <<<<"k", "W", "h">>>> }                                          \* 'kWh'

\* Billing start dates drawn: 2024-01-01, 2024-02-01 (leap year), 2024-04-15,
\* 2025-02-01, 2025-12-31.
StartsDrawn == {0, 31, 105, 397, 730}

InitParse ==
    /\ parse_args \in [unit : UnitsDrawn, value : {10, 25}, days : 1..MaxPeriodDays,
                       billing_start : StartsDrawn]
    /\ parse_out = Pending
    /\ IdleRate
    /\ IdleBand
    /\ IdleEval
    /\ IdleBill
    /\ IdleStore
    /\ IdleResample

\* parse_out = _parse_rate(unit, value, days, billing_start)
ParseRateCall ==
    /\ parse_out = Pending
    /\ parse_out' = Returned(ParseRate(parse_args.unit, parse_args.value, parse_args.days,
                                       parse_args.billing_start))
    /\ UNCHANGED <<parse_args, rateVars, bandVars, evalVars, billVars, storeVars, resampleVars>>

NextParse == ParseRateCall

SpecParse == InitParse /\ [][NextParse]_vars

-----------------------------------------------------------------------------
(* Billing orchestrator: calc.py calculate_bill                            *)
(*                                                                         *)
(* A tier whose 'value' is not a number (float() raises on it) is written  *)
(* with the field value_text instead of value.                             *)

MaxComponents == 2   \* longest components list drawn

\* round(x, 4): to the nearest multiple of 1/10000, ties to even.
Round4(a) == Q(QRound(QMul(a, Int2Q(10000))), 10000)

\* Minutes since day 0 of a datetime, for comparing timestamps.
Minutes(t) == (t.date * 24 + t.hour) * 60 + t.minute

RECURSIVE SumKwh(_)
SumKwh(rows) ==
    IF rows = {} THEN 0
    ELSE LET r == CHOOSE x \in rows : TRUE IN r.kwh_used + SumKwh(rows \ {r})

\* The rows the query of lines 240-246 returns.
ReadingsOf(rq, rows) ==
    {r \in rows : /\ r.customer_id = rq.customer_id
                  /\ Minutes(r.timestamp) >= Minutes(rq.start)
                  /\ Minutes(r.timestamp) < Minutes(rq.end)}

\* The bucket a reading's band id falls into, lines 261-269.
\* Mutant: the band id is compared as written, without lower().
BucketOf_CaseSensitive(band) ==
    IF band \in {"peak", "usage_peak", "retail_peak", "network_peak"} THEN "peak"
    ELSE IF band \in {"shoulder", "usage_shoulder", "retail_shoulder", "network_shoulder"} THEN "shoulder"
    ELSE "off_peak"

BucketOf(band) ==
    LET b == Lower(band)
    IN  IF b \in {"peak", "usage_peak", "retail_peak", "network_peak"} THEN "peak"
        ELSE IF b \in {"shoulder", "usage_shoulder", "retail_shoulder", "network_shoulder"} THEN "shoulder"
        ELSE "off_peak"

\* Mutant: days is the difference of the dates, without max(1, ...).
Aggregate_RawDays(rq, canon, rows) ==
    LET mine == ReadingsOf(rq, rows)
        InBucket(name) == {r \in mine : BucketOf(AssignBand(r.timestamp, canon)) = name}
    IN  [total_usage |-> SumKwh(mine),
         peak_usage |-> SumKwh(InBucket("peak")),
         off_peak_usage |-> SumKwh(InBucket("off_peak")),
         shoulder_usage |-> SumKwh(InBucket("shoulder")),
         max_kva |-> 0,
         incentive_kva |-> 0,
         days |-> rq.end.date - rq.start.date]

\* total_usage, peak_usage, off_peak_usage, shoulder_usage and days, lines 249-269.
Aggregate(rq, canon, rows) ==
    LET mine == ReadingsOf(rq, rows)
        InBucket(name) == {r \in mine : BucketOf(AssignBand(r.timestamp, canon)) = name}
        span == rq.end.date - rq.start.date
    IN  [total_usage |-> SumKwh(mine),
         peak_usage |-> SumKwh(InBucket("peak")),
         off_peak_usage |-> SumKwh(InBucket("off_peak")),
         shoulder_usage |-> SumKwh(InBucket("shoulder")),
         max_kva |-> 0,
         incentive_kva |-> 0,
         days |-> IF span > 1 THEN span ELSE 1]

\* base_vars, lines 290-303.
BaseVars(rq, agg) ==
    [total_usage |-> Int2Q(agg.total_usage),
     peak_usage |-> Int2Q(agg.peak_usage),
     off_peak_usage |-> Int2Q(agg.off_peak_usage),
     shoulder_usage |-> Int2Q(agg.shoulder_usage),
     network_peak_usage |-> Int2Q(agg.peak_usage),
     network_off_peak_usage |-> Int2Q(agg.off_peak_usage),
     network_total_usage |-> Int2Q(agg.total_usage),
     max_kva |-> Int2Q(agg.max_kva),
     incentive_kva |-> Int2Q(agg.incentive_kva),
     days |-> Int2Q(agg.days),
     billing_period_start |-> [t |-> "str", date |-> rq.start.date],
     billing_period_end |-> [t |-> "str", date |-> rq.end.date]]

\* The season check of lines 310-319 says 'continue'.
SeasonSkips(comp, rq) ==
    /\ Has(comp, "season")
    /\ DateParses(comp.season, "from")
    /\ DateParses(comp.season, "to")
    /\ rq.end.date < comp.season.from[1] \/ rq.start.date > comp.season.to[1]

\* applies = [a.lower() for a in comp.get('applies_to', [])]
Applies(comp) ==
    IF Has(comp, "applies_to")
    THEN {Lower(comp.applies_to[i]) : i \in 1..Len(comp.applies_to)}
    ELSE {}

\* The branch of the if/elif chains of lines 324-335 and 367-392 that is taken.
Category(applies) ==
    IF applies \cap {"usage_peak", "network_peak"} # {} THEN "peak"
    ELSE IF applies \cap {"usage_offpeak", "usage_off_peak", "network_offpeak", "network_off_peak"} # {}
         THEN "off_peak"
    ELSE IF applies \cap {"usage_shoulder", "shoulder_usage", "network_shoulder"} # {} THEN "shoulder"
    ELSE IF applies \cap {"usage_total", "total_usage", "usage_all"} # {} THEN "total"
    ELSE IF "demand" \in applies THEN "demand"
    ELSE IF "incentive_demand" \in applies THEN "incentive_demand"
    ELSE IF applies \cap {"fixed", "meter", "metering", "ancillary"} # {} THEN "fixed"
    ELSE "other"

\* Mutant: a demand component is tiered (and reported) by the energy used.
UsageForTier_DemandFromUsage(applies, agg) ==
    CASE Category(applies) = "peak" -> agg.peak_usage
      [] Category(applies) = "off_peak" -> agg.off_peak_usage
      [] Category(applies) = "shoulder" -> agg.shoulder_usage
      [] Category(applies) \in {"total", "demand", "incentive_demand"} -> agg.total_usage
      [] OTHER -> 0

\* usage_for_tier, lines 322-335.
UsageForTier(applies, agg) ==
    CASE Category(applies) = "peak" -> agg.peak_usage
      [] Category(applies) = "off_peak" -> agg.off_peak_usage
      [] Category(applies) = "shoulder" -> agg.shoulder_usage
      [] Category(applies) = "total" -> agg.total_usage
      [] Category(applies) = "demand" -> agg.max_kva
      [] Category(applies) = "incentive_demand" -> agg.incentive_kva
      [] OTHER -> 0

\* Mutant: units_used is the number of days for every component.
UnitsUsed_Days(applies, agg) == agg.days

\* units_used and unit_label, lines 364-392.
UnitsUsed(applies, agg) ==
    CASE Category(applies) = "fixed" -> agg.days
      [] OTHER -> UsageForTier(applies, agg)

UnitLabel(applies) ==
    CASE Category(applies) \in {"peak", "off_peak", "shoulder", "total"} -> "kWh"
      [] Category(applies) \in {"demand", "incentive_demand"} -> "kVA"
      [] Category(applies) = "fixed" -> "days"
      [] OTHER -> "unit"

\* float(tier.get('value', 0.0)) raises while _select_rate_value runs: for one
\* tier at line 204; otherwise at line 210 for a tier the loop reaches, or at
\* line 223 for the last tier when the loop runs to its end.
SelectRateRaises(rs, u) ==
    LET NotNumber(i) == Has(rs[i], "value_text")
        first == FirstApplicable(rs, u)
    IN  IF Len(rs) = 0 THEN FALSE
        ELSE IF Len(rs) = 1 THEN NotNumber(1)
        ELSE \/ \E i \in 1..Len(rs) :
                    /\ NotNumber(i)
                    /\ \A j \in 1..(i - 1) : ~NotNumber(j) /\ ~TierApplies(rs[j], u)
             \/ first = 0 /\ NotNumber(Len(rs))

EmptyBreakdown == [id \in {} |-> <<>>]

\* Mutant: the entry is not recorded.
Store_Drop(breakdown, comp_id, entry) == breakdown

\* breakdown[comp_id] = entry
Store(breakdown, comp_id, entry) ==
    [id \in DOMAIN breakdown \cup {comp_id} |-> IF id = comp_id THEN entry ELSE breakdown[id]]

\* The for loop of lines 305-401 from component i on; acc is [breakdown,
\* total_cost] so far.  The outcome is Raised when an exception escapes.
RECURSIVE BillLoop(_, _, _, _, _)
BillLoop(i, acc, components, rq, agg) ==
    IF i > Len(components) THEN Returned(acc)
    ELSE
    LET comp == components[i]
        skip == BillLoop(i + 1, acc, components, rq, agg)
        applies == Applies(comp)
        usage_for_tier == UsageForTier(applies, agg)
        sched == IF Has(comp, "rate_schedule") THEN comp.rate_schedule ELSE <<>>
        rate_dollars == ParseRate(IF Has(comp, "unit") THEN <<comp.unit>> ELSE <<>>,
                                  SelectRateValue(sched, usage_for_tier),
                                  agg.days, rq.start.date)
        vars_for_expr ==
            [name \in DOMAIN BaseVars(rq, agg) \cup {"rate", "loss_factor"} |->
                IF name = "rate" THEN rate_dollars
                ELSE IF name = "loss_factor"
                     THEN IF Has(comp, "loss_factor") THEN Int2Q(comp.loss_factor) ELSE Int2Q(1)
                ELSE BaseVars(rq, agg)[name]]
        cost == SafeEval(comp.calculation, vars_for_expr)
        entry == [units_used |-> Round4(Int2Q(UnitsUsed(applies, agg))),
                  unit_label |-> UnitLabel(applies),
                  cost |-> Round4(cost.val)]
    IN  IF ~Has(comp, "id") THEN skip
        ELSE IF SeasonSkips(comp, rq) THEN skip
        ELSE IF SelectRateRaises(sched, usage_for_tier) THEN Raised
        ELSE IF ~Has(comp, "calculation") THEN skip
        ELSE IF cost = Raised THEN skip
        ELSE BillLoop(i + 1,
                      [breakdown |-> Store(acc.breakdown, comp.id, entry),
                       total_cost |-> QAdd(acc.total_cost, cost.val)],
                      components, rq, agg)

\* calc.py calculate_bill.
CalculateBill(rq, tvs, rows) ==
    IF rq.tariff_version_id \notin DOMAIN tvs
    THEN Returned([total_cost |-> Int2Q(0), breakdown |-> EmptyBreakdown, units |-> "AUD"])
    ELSE LET canon == tvs[rq.tariff_version_id]
             components == IF Has(canon, "components") THEN canon.components ELSE <<>>
             loop == BillLoop(1, [breakdown |-> EmptyBreakdown, total_cost |-> Int2Q(0)],
                              components, rq, Aggregate(rq, canon, rows))
         IN  IF loop = Raised THEN Raised
             ELSE Returned([total_cost |-> Round4(loop.val.total_cost),
                            breakdown |-> loop.val.breakdown,
                            units |-> "AUD"])


\* Inputs drawn.
UsageFormula == BinOp(BinOp(Name("rate"), "Mult", Name("total_usage")), "Mult", Name("loss_factor"))
PeakFormula == BinOp(Name("rate"), "Mult", Name("peak_usage"))
DaysFormula == BinOp(Name("rate"), "Mult", Name("days"))
DemandFormula == BinOp(Name("rate"), "Mult", Name("max_kva"))
\* rate * undefined_usage
UndefinedFormula == BinOp(Name("rate"), "Mult", Name("undefined_usage"))
\* rate * total_usage if total_usage >= 0 else undefined_usage
GuardedFormula ==
    IfExp(Compare(Name("total_usage"), <<"GtE">>, <<Constant(0)>>),
          BinOp(Name("rate"), "Mult", Name("total_usage")),
          Name("undefined_usage"))

CentsPerKWh == <<"c", "/", "k", "W", "h">>
CentsPerDay == <<"c", "/", "d", "a", "y">>
DollarsPerKvaMonth == <<"$", "/", "k", "V", "A", "/", "M", "t", "h">>

ComponentsDrawn ==
    { [id |-> "energy", unit |-> CentsPerKWh, rate_schedule |-> <<[value |-> 10]>>,
       applies_to |-> <<"Usage_Total">>, calculation |-> UsageFormula],
      [id |-> "energy", unit |-> CentsPerKWh, rate_schedule |-> <<[value |-> 20]>>,
       applies_to |-> <<"usage_total">>, loss_factor |-> 2, calculation |-> UsageFormula],
      [id |-> "peak_energy", unit |-> CentsPerKWh,
       rate_schedule |-> <<[to |-> 5, value |-> 20], [from |-> 5, value |-> 30]>>,
       applies_to |-> <<"usage_peak">>, calculation |-> PeakFormula],
      [id |-> "supply", unit |-> CentsPerDay, rate_schedule |-> <<[value |-> 100]>>,
       applies_to |-> <<"fixed">>, calculation |-> DaysFormula],
      [id |-> "demand", unit |-> DollarsPerKvaMonth, rate_schedule |-> <<[value |-> 10]>>,
       applies_to |-> <<"demand">>, calculation |-> DemandFormula],
      [id |-> "levy", unit |-> CentsPerKWh, rate_schedule |-> <<[value |-> 10]>>,
       applies_to |-> <<"usage_total">>, calculation |-> UndefinedFormula],
      [id |-> "rebate", unit |-> CentsPerKWh, rate_schedule |-> <<[value |-> 10]>>,
       applies_to |-> <<"usage_total">>, calculation |-> GuardedFormula],
      [id |-> "broken", unit |-> CentsPerKWh, rate_schedule |-> <<[value_text |-> "n/a"]>>,
       applies_to |-> <<"usage_total">>, calculation |-> UsageFormula],
      [id |-> "summer", unit |-> CentsPerKWh, rate_schedule |-> <<[value |-> 10]>>,
       applies_to |-> <<"usage_total">>, season |-> [from |-> <<MaxDay + 10>>, to |-> <<MaxDay + 20>>],
       calculation |-> UsageFormula],
      [unit |-> CentsPerKWh, rate_schedule |-> <<[value |-> 10]>>,
       applies_to |-> <<"usage_total">>, calculation |-> UsageFormula],
      [id |-> "note", unit |-> CentsPerKWh, rate_schedule |-> <<[value |-> 10]>>,
       applies_to |-> <<"usage_total">>] }

PeakBand ==
    [id |-> "Peak", days |-> <<"all">>,
     times |-> <<[from |-> FormatHHMM(9, 0), to |-> FormatHHMM(17, 0)]>>]

CanonicalsDrawn ==
    [components : SeqsUpTo(ComponentsDrawn, MaxComponents), time_bands : {<<PeakBand>>}]

ReadingsDrawn ==
    { [id |-> 1, customer_id |-> 1, timestamp |-> [date |-> 0, hour |-> 9, minute |-> 0], kwh_used |-> 3],
      [id |-> 2, customer_id |-> 1, timestamp |-> [date |-> 0, hour |-> 17, minute |-> 0], kwh_used |-> 5],
      [id |-> 3, customer_id |-> 1, timestamp |-> [date |-> 2, hour |-> 16, minute |-> 30], kwh_used |-> 7],
      [id |-> 4, customer_id |-> 2, timestamp |-> [date |-> 0, hour |-> 9, minute |-> 0], kwh_used |-> 11] }

Midnight(day) == [date |-> day, hour |-> 0, minute |-> 0]

\* Requests drawn: customer 1, tariff version 1 (stored) or 2 (not stored), and
\* a period of whole days within 0..MaxDay.
RequestsDrawn ==
    { [customer_id |-> 1, tariff_version_id |-> v, start |-> Midnight(a), end |-> Midnight(b)] :
        v \in {1, 2}, a \in {0, 1}, b \in {1, MaxDay} }

Init ==
    /\ tariff_versions \in [{1} -> CanonicalsDrawn]
    /\ meter_readings \in SUBSET ReadingsDrawn
    /\ req \in RequestsDrawn
    /\ result = Pending
    /\ IdleRate
    /\ IdleBand
    /\ IdleEval
    /\ IdleParse
    /\ IdleResample
    /\ IdleStore

\* result = calculate_bill(db, customer_id, tariff_version_id, start, end)
CalculateBillCall ==
    /\ result = Pending
    /\ result' = CalculateBill(req, tariff_versions, meter_readings)
    /\ UNCHANGED <<tariff_versions, meter_readings, req, rateVars, bandVars, evalVars, parseVars, storeVars, resampleVars>>

Next == CalculateBillCall

Spec == Init /\ [][Next]_vars


-----------------------------------------------------------------------------
(* calculate_bill on a seasonal component                                  *)

\* Season windows drawn: from and to any days of 0..MaxDay+1 (to before from
\* included), a window without 'to', and windows with a malformed date.
SeasonsDrawn ==
    { [from |-> <<a>>, to |-> <<b>>] : a, b \in 0..(MaxDay + 1) }
        \cup { [from |-> <<1>>], [from |-> <<>>, to |-> <<MaxDay>>], [from |-> <<MaxDay>>, to |-> <<>>] }

SeasonalTariff(season) ==
    [components |-> << [id |-> "summer", unit |-> CentsPerKWh, rate_schedule |-> <<[value |-> 10]>>,
                        applies_to |-> <<"usage_total">>, season |-> season,
                        calculation |-> UsageFormula] >>,
     time_bands |-> <<PeakBand>>]

\* Periods drawn: from midnight of a day to midnight or noon of the same or a
\* later day, start before end.
PeriodRequests ==
    { [customer_id |-> 1, tariff_version_id |-> 1, start |-> Midnight(a),
       end |-> [date |-> b, hour |-> h, minute |-> 0]] :
        a \in 0..MaxDay, b \in 0..(MaxDay + 1), h \in {0, 12} }

InitSeason ==
    /\ tariff_versions \in [{1} -> {SeasonalTariff(season) : season \in SeasonsDrawn}]
    /\ meter_readings = ReadingsDrawn
    /\ req \in {rq \in PeriodRequests : Minutes(rq.start) < Minutes(rq.end)}
    /\ result = Pending
    /\ IdleRate
    /\ IdleBand
    /\ IdleEval
    /\ IdleParse
    /\ IdleResample
    /\ IdleStore

NextSeason == CalculateBillCall

SpecSeason == InitSeason /\ [][NextSeason]_vars

-----------------------------------------------------------------------------
(* calculate_bill on banded readings                                       *)

\* A tariff of one or two time bands whose ids are drawn in several spellings,
\* and four components whose formulas are the bare usage variables, so that
\* the breakdown shows what the aggregation loop (lines 249-269) put in each
\* bucket.
BandIdsDrawn ==
    {"Peak", "USAGE_PEAK", "retail_peak", "Network_Peak",
     "Shoulder", "usage_shoulder", "Retail_Shoulder", "network_shoulder",
     "off_peak", "OFF_PEAK", "Weekend", "offpeak"}

DollarsPerKWh == <<"$", "/", "k", "W", "h">>

BucketProbe(id, variable) ==
    [id |-> id, unit |-> DollarsPerKWh, rate_schedule |-> <<[value |-> 1]>>,
     calculation |-> Name(variable)]

\* The first band covers 09:00-10:00 of every day, the second 17:00-18:00; a
\* reading at any other time matches no band.
BucketTariff(bands) ==
    [components |-> << BucketProbe("total", "total_usage"),
                       BucketProbe("peak", "peak_usage"),
                       BucketProbe("shoulder", "shoulder_usage"),
                       BucketProbe("off_peak", "off_peak_usage") >>,
     time_bands |-> bands]

MorningBand(id) ==
    [id |-> id, days |-> <<"all">>,
     times |-> <<[from |-> FormatHHMM(9, 0), to |-> FormatHHMM(10, 0)]>>]

EveningBand(id) ==
    [id |-> id, days |-> <<"all">>,
     times |-> <<[from |-> FormatHHMM(17, 0), to |-> FormatHHMM(18, 0)]>>]

BucketBandLists ==
    {<<MorningBand(a)>> : a \in BandIdsDrawn}
        \cup {<<MorningBand(a), EveningBand(b)>> : a \in BandIdsDrawn, b \in BandIdsDrawn}

InitBuckets ==
    /\ tariff_versions \in [{1} -> {BucketTariff(bands) : bands \in BucketBandLists}]
    /\ meter_readings \in SUBSET ReadingsDrawn
    /\ req \in {rq \in RequestsDrawn : rq.tariff_version_id = 1}
    /\ result = Pending
    /\ IdleRate
    /\ IdleBand
    /\ IdleEval
    /\ IdleParse
    /\ IdleResample
    /\ IdleStore

NextBuckets == CalculateBillCall

SpecBuckets == InitBuckets /\ [][NextBuckets]_vars

-----------------------------------------------------------------------------
(* calculate_bill on the variables it exposes to formulas                  *)

\* Tariffs of one to three components whose formulas show a variable of
\* base_vars (lines 290-303) or the rate: the cost reported for the component
\* is the value the formula saw.  The periods drawn include periods within one
\* day and periods whose end precedes their start.

\* The usage variables a formula may name, network-prefixed and retail.
NetworkPairs ==
    { <<"network_peak_usage", "peak_usage">>,
      <<"network_off_peak_usage", "off_peak_usage">>,
      <<"network_shoulder_usage", "shoulder_usage">>,
      <<"network_total_usage", "total_usage">> }

\* Two components: the network-prefixed variable and its retail counterpart.
PairTariff(pair) ==
    [components |-> <<BucketProbe(pair[1], pair[1]), BucketProbe(pair[2], pair[2])>>,
     time_bands |-> <<MorningBand("Shoulder"), EveningBand("Network_Peak")>>]

DollarsPerYear == <<"$", "/", "y", "e", "a", "r">>

\* 'days' as a formula sees it, and as proration uses it: $365 per year is
\* 365 * days / 365 for the period.
DaysTariff ==
    [components |-> << BucketProbe("days", "days"),
                       [id |-> "per_year", unit |-> DollarsPerYear,
                        rate_schedule |-> <<[value |-> 365]>>, calculation |-> Name("rate")] >>,
     time_bands |-> <<PeakBand>>]

DollarsPerKva == <<"$", "/", "k", "V", "A">>

DemandTagsDrawn ==
    { <<"demand">>, <<"Demand">>, <<"incentive_demand">>, <<"Incentive_Demand">>,
      <<"demand", "fixed">> }

\* max_kva and incentive_kva as a formula sees them, and a demand component
\* whose cost is the rate of the tier selected for it.
DemandTariff(tags) ==
    [components |-> << BucketProbe("max_kva", "max_kva"),
                       BucketProbe("incentive_kva", "incentive_kva"),
                       [id |-> "demand_charge", unit |-> DollarsPerKva,
                        rate_schedule |-> <<[to |-> 5, value |-> 20], [from |-> 5, value |-> 30]>>,
                        applies_to |-> tags, calculation |-> Name("rate")] >>,
     time_bands |-> <<PeakBand>>]

\* -(rate * total_usage): a feed-in credit.
CreditFormula == UnaryOp("USub", BinOp(Name("rate"), "Mult", Name("total_usage")))

CreditTariff ==
    [components |-> << [id |-> "credit", unit |-> CentsPerKWh, rate_schedule |-> <<[value |-> 10]>>,
                        applies_to |-> <<"usage_total">>, calculation |-> CreditFormula] >>,
     time_bands |-> <<PeakBand>>]

VarsTariffs ==
    {PairTariff(pair) : pair \in NetworkPairs}
        \cup {DaysTariff, CreditTariff}
        \cup {DemandTariff(tags) : tags \in DemandTagsDrawn}

\* Periods drawn: start and end at midnight or noon of any day of 0..MaxDay,
\* in either order.
AnyPeriodRequests ==
    { [customer_id |-> 1, tariff_version_id |-> 1,
       start |-> [date |-> a, hour |-> g, minute |-> 0],
       end |-> [date |-> b, hour |-> h, minute |-> 0]] :
        a \in 0..MaxDay, b \in 0..MaxDay, g \in {0, 12}, h \in {0, 12} }

InitVars ==
    /\ tariff_versions \in [{1} -> VarsTariffs]
    /\ meter_readings \in SUBSET ReadingsDrawn
    /\ req \in AnyPeriodRequests
    /\ result = Pending
    /\ IdleRate
    /\ IdleBand
    /\ IdleEval
    /\ IdleParse
    /\ IdleResample
    /\ IdleStore

NextVars == CalculateBillCall

SpecVars == InitVars /\ [][NextVars]_vars

-----------------------------------------------------------------------------
(* calculate_bill on mixed components                                      *)

\* Tariffs of three components, each one that is billed or one that the loop
\* passes over: without id, out of season, without calculation, or with a
\* formula that fails.
MixComponents ==
    {comp \in ComponentsDrawn :
        ~Has(comp, "id") \/ comp.id \in {"energy", "supply", "levy", "summer", "note"}}

MixTariffs ==
    {[components |-> <<a, b, c>>, time_bands |-> <<PeakBand>>] :
        a \in MixComponents, b \in MixComponents, c \in MixComponents}

InitMix ==
    /\ tariff_versions \in [{1} -> MixTariffs]
    /\ meter_readings \in SUBSET ReadingsDrawn
    /\ req \in {rq \in RequestsDrawn : rq.tariff_version_id = 1}
    /\ result = Pending
    /\ IdleRate
    /\ IdleBand
    /\ IdleEval
    /\ IdleParse
    /\ IdleResample
    /\ IdleStore

NextMix == CalculateBillCall

SpecMix == InitMix /\ [][NextMix]_vars

-----------------------------------------------------------------------------
(* Resampling: core/helperfunctions.py resample_to_30min, energy column    *)
(*                                                                         *)
(* A timestamp is a local time of one day without a daylight-saving        *)
(* transition, in minutes after midnight.  The frame has the columns       *)
(* timestamp and usage_kwh only, so the demand branch (lines 52-68) gives  *)
(* an empty frame and the result is the energy frame.  pandas' resample    *)
(* makes one bin for every 30 minutes from the bin of the earliest row to  *)
(* the bin of the latest, and sum() of a bin without rows is 0 (min_count  *)
(* is 0), which dropna(how="all") keeps.                                   *)

MaxRows == 3    \* most rows of the frames drawn

\* The start of the left-closed 30-minute bin of minute t.
BinOf(t) == (t \div 30) * 30

\* The bins of df[[usage_column]].resample("30T"): every bin from the first
\* to the last that holds a row.
Bins(rows) ==
    LET held == {BinOf(rows[i].timestamp) : i \in 1..Len(rows)}
    IN  {b \in {BinOf(t) : t \in 0..1439} :
            /\ \E lo \in held : lo <= b
            /\ \E hi \in held : b <= hi}

\* .sum() of one bin: the usage_kwh of its rows added up, 0 for no row.
RECURSIVE BinSum(_, _, _)
BinSum(rows, b, i) ==
    IF i > Len(rows) THEN 0
    ELSE (IF BinOf(rows[i].timestamp) = b THEN rows[i].usage_kwh ELSE 0) + BinSum(rows, b, i + 1)

\* resample_to_30min(df): the frame returned, bin start -> usage_kwh.
ResampleTo30Min(rows) == [b \in Bins(rows) |-> BinSum(rows, b, 1)]

\* Frames drawn: one to MaxRows rows, in any order, at 10:00, 10:10, 10:29,
\* 10:30 or 11:40, of 2 or 5 kWh.
RowsDrawn == [timestamp : {600, 610, 629, 630, 700}, usage_kwh : {2, 5}]

FramesDrawn == SeqsUpTo(RowsDrawn, MaxRows) \ {<<>>}

InitResample ==
    /\ df \in FramesDrawn
    /\ resampled = Pending
    /\ IdleRate
    /\ IdleBand
    /\ IdleEval
    /\ IdleBill
    /\ IdleParse
    /\ IdleStore

\* resampled = resample_to_30min(df)
ResampleCall ==
    /\ resampled = Pending
    /\ resampled' = Returned(ResampleTo30Min(df))
    /\ UNCHANGED <<df, rateVars, bandVars, evalVars, billVars, parseVars, storeVars>>

NextResample == ResampleCall

SpecResample == InitResample /\ [][NextResample]_vars

-----------------------------------------------------------------------------
(* Checksum gate: checksum.py compute_checksum                             *)
(*                                                                         *)
(* The digest is modelled by the content that is hashed (sha256 is taken   *)
(* to be injective on it).  The query orders the rows by timestamp only:   *)
(* rows with equal timestamps come in an order SQL leaves to the database, *)
(* so the rows returned are any sequence of the selected rows in           *)
(* non-decreasing timestamp order.                                         *)

\* The sequences the query of lines 11-17 can return.
RowsInOrder(rq, rows) ==
    LET mine == ReadingsOf(rq, rows)
        n == Cardinality(mine)
    IN  {seq \in [1..n -> mine] :
            /\ \A i, j \in 1..n : i # j => seq[i] # seq[j]
            /\ \A i \in 1..(n - 1) : Minutes(seq[i].timestamp) <= Minutes(seq[i + 1].timestamp)}

\* checksum.py compute_checksum, for the rows in the order the query gave them.
ComputeChecksum(rq, tvs, seq) ==
    [tariff_version_id |-> rq.tariff_version_id,
     canonical_json |-> IF rq.tariff_version_id \in DOMAIN tvs
                        THEN <<tvs[rq.tariff_version_id]>> ELSE <<>>,
     rows |-> [i \in 1..Len(seq) |-> <<seq[i].timestamp, seq[i].kwh_used>>],
     start |-> rq.start,
     end |-> rq.end]

\* Readings drawn: those of ReadingsDrawn and a second reading of customer 1 at
\* 09:00 of day 0 (two readings may share a timestamp: no constraint of
\* core/models.py forbids it).
TiedReadingsDrawn ==
    ReadingsDrawn \cup
    { [id |-> 5, customer_id |-> 1, timestamp |-> [date |-> 0, hour |-> 9, minute |-> 0], kwh_used |-> 4] }

EnergyTariff ==
    [components |-> << [id |-> "energy", unit |-> CentsPerKWh, rate_schedule |-> <<[value |-> 10]>>,
                        applies_to |-> <<"usage_total">>, calculation |-> UsageFormula] >>,
     time_bands |-> <<PeakBand>>]

PeakTariff ==
    [components |-> << [id |-> "peak_energy", unit |-> CentsPerKWh,
                        rate_schedule |-> <<[to |-> 5, value |-> 20], [from |-> 5, value |-> 30]>>,
                        applies_to |-> <<"usage_peak">>, calculation |-> PeakFormula],
                       [id |-> "supply", unit |-> CentsPerDay, rate_schedule |-> <<[value |-> 100]>>,
                        applies_to |-> <<"fixed">>, calculation |-> DaysFormula] >>,
     time_bands |-> <<PeakBand>>]

InitTwice ==
    /\ tariff_versions \in [{1} -> {EnergyTariff, PeakTariff}]
    /\ meter_readings \in SUBSET TiedReadingsDrawn
    /\ req \in RequestsDrawn
    /\ result = Pending
    /\ runs = <<>>
    /\ calc_runs = <<>> /\ call = Pending /\ writers = <<>> /\ overlapped = FALSE
    /\ IdleRate
    /\ IdleBand
    /\ IdleEval
    /\ IdleParse
    /\ IdleResample

\* One run of compute_checksum and calculate_bill for req (main.py lines 27-28);
\* the tables do not change.
RunOnce ==
    /\ Len(runs) < 2
    /\ \E seq \in RowsInOrder(req, meter_readings) :
          runs' = Append(runs, [checksum |-> ComputeChecksum(req, tariff_versions, seq),
                                result |-> CalculateBill(req, tariff_versions, meter_readings)])
    /\ UNCHANGED <<tariff_versions, meter_readings, req, result, calc_runs, call, writers, overlapped,
                   rateVars, bandVars, evalVars, parseVars, resampleVars>>

NextTwice == RunOnce

SpecTwice == InitTwice /\ [][NextTwice]_vars

-----------------------------------------------------------------------------
(* Result store: calc.py upsert_calc_run, api/main.py calculate_and_store  *)
(* and get_bill                                                            *)
(*                                                                         *)
(* calc_runs is the table in id order: row i has id i (the primary key     *)
(* grows with every insert and no code deletes a row).  A row whose        *)
(* result_summary_json is NULL has no such field.                          *)

MaxRuns == 3   \* most rows the calc_runs table grows to

\* str(start): a datetime prints as its date and its time of day.
StrDatetime(t) == [t |-> "str", date |-> t.date, time |-> FormatHHMM(t.hour, t.minute)]

\* Mutant: the query returns the oldest row of the customer and tariff
\* version (order_by id ascending).
LatestRun_Oldest(rows, customer_id, tariff_version_id) ==
    LET mine == {i \in 1..Len(rows) : /\ rows[i].customer_id = customer_id
                                      /\ rows[i].tariff_version_id = tariff_version_id}
    IN  IF mine = {} THEN 0 ELSE CHOOSE i \in mine : \A j \in mine : i <= j

\* The id of the row the query of calc.py lines 415-420 (and main.py lines
\* 37-42) returns: the newest of the customer and tariff version; 0 for None.
LatestRun(rows, customer_id, tariff_version_id) ==
    LET mine == {i \in 1..Len(rows) : /\ rows[i].customer_id = customer_id
                                      /\ rows[i].tariff_version_id = tariff_version_id}
    IN  IF mine = {} THEN 0 ELSE CHOOSE i \in mine : \A j \in mine : j <= i

\* Mutant: the row read never passes the test.
SameRun_Never(rows, id, rq, checksum) == FALSE

\* The test of calc.py lines 421-424 on the row read (0 for None).
SameRun(rows, id, rq, checksum) ==
    /\ id # 0
    /\ Has(rows[id], "result_summary_json")
    /\ LET meta == rows[id].result_summary_json._meta
       IN  /\ meta.checksum = checksum
           /\ meta.start = StrDatetime(rq.start)
           /\ meta.end = StrDatetime(rq.end)

\* The row of calc.py lines 425-433, with the id the insert gives it.
NewRun(rows, rq, checksum, bill) ==
    [id |-> Len(rows) + 1,
     customer_id |-> rq.customer_id,
     tariff_version_id |-> rq.tariff_version_id,
     status |-> "completed",
     result_summary_json |->
        [_meta |-> [start |-> StrDatetime(rq.start), end |-> StrDatetime(rq.end), checksum |-> checksum],
         result |-> bill]]

\* Mutant: the row read is never compared; every call appends.
UpsertCalcRun_AlwaysAppends(rows, rq, checksum, bill) ==
    [rows |-> Append(rows, NewRun(rows, rq, checksum, bill)), id |-> Len(rows) + 1]

\* calc.py upsert_calc_run run from start to end with no other writer in
\* between: the table afterwards and the id returned.
UpsertCalcRun(rows, rq, checksum, bill) ==
    LET id == LatestRun(rows, rq.customer_id, rq.tariff_version_id)
    IN  IF SameRun(rows, id, rq, checksum)
        THEN [rows |-> rows, id |-> id]
        ELSE [rows |-> Append(rows, NewRun(rows, rq, checksum, bill)), id |-> Len(rows) + 1]

\* main.py lines 29-30 (and 48-49), given what lines 27-28 (46-47) computed:
\* upsert and response.  The outcome is the table afterwards and what is known
\* of the call.
ComputeAndStore(handler, rq, checksum, bill) ==
    IF bill = Raised
    THEN [rows |-> calc_runs,
          call |-> [handler |-> handler, req |-> rq, upserted |-> FALSE, response |-> Raised]]
    ELSE LET up == UpsertCalcRun(calc_runs, rq, checksum, bill.val)
         IN  [rows |-> up.rows,
              call |-> [handler |-> handler, req |-> rq, upserted |-> TRUE, checksum |-> checksum,
                        response |-> Returned([calc_run_id |-> up.id, result |-> bill.val])]]

\* Requests drawn: customer 1 and tariff version 1 (stored) from day 0 to day 1
\* or to day MaxDay, and tariff version 2 (not stored) from day 0 to day 1.
StoreRequests ==
    {rq \in RequestsDrawn : rq.start.date = 0 /\ (rq.tariff_version_id = 1 \/ rq.end.date = 1)}

\* Readings of customer 1 drawn: one of day 0, stored from the start, and one
\* of day 2, inserted later.
StoreReadings == {r \in ReadingsDrawn : r.id \in {1, 3}}

InitStore ==
    /\ tariff_versions = [v \in {1} |-> EnergyTariff]
    /\ meter_readings = {r \in StoreReadings : r.id = 1}
    /\ calc_runs \in {<<>>, <<[id |-> 1, customer_id |-> 1, tariff_version_id |-> 1, status |-> "running"]>>}
    /\ call = Pending
    /\ req = <<>> /\ result = Pending /\ runs = <<>> /\ writers = <<>> /\ overlapped = FALSE
    /\ IdleRate
    /\ IdleBand
    /\ IdleEval
    /\ IdleParse
    /\ IdleResample

\* POST /calculate, main.py lines 24-30.
CalculateAndStore ==
    \E rq \in StoreRequests : \E seq \in RowsInOrder(rq, meter_readings) :
    \E checksum \in {ComputeChecksum(rq, tariff_versions, seq)},
       bill \in {CalculateBill(rq, tariff_versions, meter_readings)} :
        LET out == ComputeAndStore("calculate_and_store", rq, checksum, bill)
        IN  /\ Len(out.rows) <= MaxRuns
            /\ calc_runs' = out.rows
            /\ call' = out.call
            /\ UNCHANGED <<tariff_versions, meter_readings, req, result, runs, writers, overlapped,
                           rateVars, bandVars, evalVars, parseVars, resampleVars>>

\* GET /customers/{customer_id}/bills, main.py lines 32-51.  checksum and
\* bill are what lines 46-47 compute when they are reached.
GetBill ==
    \E rq \in StoreRequests : \E seq \in RowsInOrder(rq, meter_readings) :
    \E checksum \in {ComputeChecksum(rq, tariff_versions, seq)},
       bill \in {CalculateBill(rq, tariff_versions, meter_readings)} :
        LET id == LatestRun(calc_runs, rq.customer_id, rq.tariff_version_id)
            out == IF id = 0 \/ ~Has(calc_runs[id], "result_summary_json")
                   THEN ComputeAndStore("get_bill", rq, checksum, bill)
                   ELSE [rows |-> calc_runs,
                         call |-> [handler |-> "get_bill", req |-> rq, upserted |-> FALSE,
                                   response |-> Returned([calc_run_id |-> id,
                                                          result |-> calc_runs[id].result_summary_json.result])]]
        IN  /\ Len(out.rows) <= MaxRuns
            /\ calc_runs' = out.rows
            /\ call' = out.call
            /\ UNCHANGED <<tariff_versions, meter_readings, req, result, runs, writers, overlapped,
                           rateVars, bandVars, evalVars, parseVars, resampleVars>>

\* A reading is inserted into meter_reading (data/load_sample_meter_data.py).
InsertMeterReading ==
    \E r \in StoreReadings \ meter_readings :
        /\ meter_readings' = meter_readings \cup {r}
        /\ UNCHANGED <<tariff_versions, req, result, runs, calc_runs, call, writers, overlapped,
                       rateVars, bandVars, evalVars, parseVars, resampleVars>>

NextStore == CalculateAndStore \/ GetBill \/ InsertMeterReading

SpecStore == InitStore /\ [][NextStore]_vars

-----------------------------------------------------------------------------
(* Concurrent writers: two API workers inside upsert_calc_run              *)
(*                                                                         *)
(* A worker computes checksum and bill, then runs upsert_calc_run, whose   *)
(* two database accesses are separate steps: the select of lines 415-420   *)
(* (followed at once by the test of lines 421-424 on the row read) and the *)
(* insert and commit of lines 434-435.  Another worker may run in between. *)

Writers == {1, 2}

Idle == [pc |-> "idle"]

InitWriters ==
    /\ tariff_versions = [v \in {1} |-> EnergyTariff]
    /\ meter_readings = StoreReadings
    /\ calc_runs = <<>>
    /\ writers = [w \in Writers |-> Idle]
    /\ overlapped = FALSE
    /\ call = Pending /\ req = <<>> /\ result = Pending /\ runs = <<>>
    /\ IdleRate
    /\ IdleBand
    /\ IdleEval
    /\ IdleParse
    /\ IdleResample

\* What no step of a worker changes.
writersFrame == <<tariff_versions, meter_readings, req, result, runs, call,
                  rateVars, bandVars, evalVars, parseVars, resampleVars>>

\* A worker takes a request and computes its checksum and bill (main.py lines
\* 27-28); upsert_calc_run is entered.
EnterUpsert(w) ==
    /\ writers[w].pc = "idle"
    /\ Len(calc_runs) + Cardinality({v \in Writers : writers[v].pc # "idle"}) < MaxRuns
    /\ \E rq \in StoreRequests : \E seq \in RowsInOrder(rq, meter_readings) :
          writers' = [writers EXCEPT ![w] =
                        [pc |-> "select", req |-> rq,
                         checksum |-> ComputeChecksum(rq, tariff_versions, seq),
                         bill |-> CalculateBill(rq, tariff_versions, meter_readings).val]]
    /\ UNCHANGED <<calc_runs, overlapped, writersFrame>>

\* Mutant: a call that finds its run stored marks the row before it returns.
SelectLatest_Touches(w) ==
    /\ writers[w].pc = "select"
    /\ LET me == writers[w]
           id == LatestRun(calc_runs, me.req.customer_id, me.req.tariff_version_id)
       IN  IF SameRun(calc_runs, id, me.req, me.checksum)
           THEN /\ writers' = [writers EXCEPT ![w] = Idle]
                /\ calc_runs' = [calc_runs EXCEPT ![id].status = "refreshed"]
           ELSE /\ writers' = [writers EXCEPT ![w] = [me EXCEPT !.pc = "insert"]]
                /\ calc_runs' = calc_runs
    /\ overlapped' = (overlapped \/ \E v \in Writers \ {w} : writers[v].pc = "insert")
    /\ UNCHANGED writersFrame

\* calc.py lines 415-424: the newest row is read and compared; the call returns
\* its id, or goes on to insert.
SelectLatest(w) ==
    /\ writers[w].pc = "select"
    /\ LET me == writers[w]
           id == LatestRun(calc_runs, me.req.customer_id, me.req.tariff_version_id)
       IN  writers' = [writers EXCEPT ![w] =
                         IF SameRun(calc_runs, id, me.req, me.checksum)
                         THEN Idle
                         ELSE [me EXCEPT !.pc = "insert"]]
    /\ overlapped' = (overlapped \/ \E v \in Writers \ {w} : writers[v].pc = "insert")
    /\ UNCHANGED <<calc_runs, writersFrame>>

\* calc.py lines 425-437: the new row is inserted and committed.
InsertRun(w) ==
    /\ writers[w].pc = "insert"
    /\ calc_runs' = Append(calc_runs, NewRun(calc_runs, writers[w].req, writers[w].checksum,
                                             writers[w].bill))
    /\ writers' = [writers EXCEPT ![w] = Idle]
    /\ UNCHANGED <<overlapped, writersFrame>>

NextWriters == \E w \in Writers : EnterUpsert(w) \/ SelectLatest(w) \/ InsertRun(w)

SpecWriters == InitWriters /\ [][NextWriters]_vars

-----------------------------------------------------------------------------
(* calculate_and_store while readings are inserted: api/main.py lines      *)
(* 27-29                                                                   *)
(*                                                                         *)
(* compute_checksum (checksum.py lines 11-17) and calculate_bill (calc.py  *)
(* lines 240-246) each run their own query on meter_reading; the session   *)
(* of core/database.py sets no isolation level, so each query reads what   *)
(* is committed when it runs, and another session may commit an insert in  *)
(* between.  upsert_calc_run follows in the steps of the section above.    *)

\* main.py line 27: a worker takes a request and computes its checksum.
StartCall(w) ==
    /\ writers[w].pc = "idle"
    /\ Len(calc_runs) + Cardinality({v \in Writers : writers[v].pc # "idle"}) < MaxRuns
    /\ \E rq \in StoreRequests : \E seq \in RowsInOrder(rq, meter_readings) :
          writers' = [writers EXCEPT ![w] =
                        [pc |-> "bill", req |-> rq,
                         checksum |-> ComputeChecksum(rq, tariff_versions, seq)]]
    /\ UNCHANGED <<calc_runs, overlapped, writersFrame>>

\* main.py line 28: the bill is calculated; upsert_calc_run is entered.
ComputeBill(w) ==
    /\ writers[w].pc = "bill"
    /\ writers' = [writers EXCEPT ![w] =
                     [pc |-> "select", req |-> writers[w].req, checksum |-> writers[w].checksum,
                      bill |-> CalculateBill(writers[w].req, tariff_versions, meter_readings).val]]
    /\ UNCHANGED <<calc_runs, overlapped, writersFrame>>

InitRace ==
    /\ tariff_versions = [v \in {1} |-> EnergyTariff]
    /\ meter_readings \in SUBSET StoreReadings
    /\ calc_runs = <<>>
    /\ writers = [w \in Writers |-> Idle]
    /\ overlapped = FALSE
    /\ call = Pending /\ req = <<>> /\ result = Pending /\ runs = <<>>
    /\ IdleRate
    /\ IdleBand
    /\ IdleEval
    /\ IdleParse
    /\ IdleResample

WorkerStep(w) == StartCall(w) \/ ComputeBill(w) \/ SelectLatest(w) \/ InsertRun(w)

NextRace == (\E w \in Writers : WorkerStep(w)) \/ InsertMeterReading

SpecRace == InitRace /\ [][NextRace]_vars

-----------------------------------------------------------------------------
(* Claims about the expression evaluator, checked under SpecEval.          *)

\* The operand nodes of a node.
Operands(node) ==
    CASE node.k = "BinOp" -> {node.left, node.right}
      [] node.k = "UnaryOp" -> {node.operand}
      [] node.k = "IfExp" -> {node.test, node.body, node.orelse}
      [] node.k = "Compare" -> {node.left} \cup {node.comparators[i] : i \in 1..Len(node.comparators)}
      [] node.k = "BoolOp" -> {node.values[i] : i \in 1..Len(node.values)}
      [] node.k = "Call" -> {node.func} \cup {node.args[i] : i \in 1..Len(node.args)}
      [] OTHER -> {}

\* Every node of the tree (ast.walk).
RECURSIVE Walk(_)
Walk(node) == {node} \cup UNION {Walk(c) : c \in Operands(node)}

\* The node's class, or its operator, is outside the allow-list of spec 4.1.
Disallowed(node) ==
    \/ node.k \notin {"Constant", "BinOp", "UnaryOp", "Name", "Call", "IfExp", "Compare", "BoolOp"}
    \/ node.k = "BinOp" /\ node.op \notin {"Add", "Sub", "Mult", "Div", "Mod", "Pow"}
    \/ node.k = "UnaryOp" /\ node.op \notin {"UAdd", "USub"}
    \/ node.k = "Compare" /\ \E i \in 1..Len(node.ops) :
            node.ops[i] \notin {"Lt", "LtE", "Gt", "GtE", "Eq", "NotEq"}
    \/ node.k = "BoolOp" /\ node.op \notin {"And", "Or"}

\* C4: an expression whose tree holds a node outside the allow-list, anywhere
\* (the untaken branch of a conditional included), is rejected: the call
\* raises and returns no number.
C4_DisallowedNodeAnywhereRejected ==
    (eval_out # Pending /\ \E node \in Walk(expr) : Disallowed(node))
    => eval_out = Raised

\* C5: an expression that references an identifier which is neither a key of
\* variables nor a whitelisted function makes the call raise; it returns no
\* number.
C5_UnknownIdentifierRejected ==
    (/\ eval_out # Pending
     /\ \E node \in Walk(expr) :
            node.k = "Name" /\ node.id \notin (DOMAIN variables \cup AllowedFuncs))
    => eval_out = Raised

-----------------------------------------------------------------------------
(* Claims about the rate resolver, checked under SpecRate.                 *)

RateReturned == rate_val.status = "ok"

\* usage lies in the half-open range [from, to) of the tier, a missing 'from'
\* being -infinity and a missing 'to' +infinity.
InHalfOpenRange(tier, u) ==
    /\ Has(tier, "from") => u >= tier.from
    /\ Has(tier, "to") => u < tier.to

FirstInRange(rs, u) ==
    CHOOSE i \in 1..Len(rs) :
        /\ InHalfOpenRange(rs[i], u)
        /\ \A j \in 1..(i - 1) : ~InHalfOpenRange(rs[j], u)

LastValue(rs) == rs[Len(rs)].value

\* C6: for a schedule of two or more tiers the call returns the value of the
\* first tier whose half-open range [from, to) contains usage; a usage equal
\* to a tier's 'to' never selects that tier.
C6_FirstHalfOpenTierWins ==
    (/\ RateReturned
     /\ Len(rate_schedule) >= 2
     /\ \E i \in 1..Len(rate_schedule) : InHalfOpenRange(rate_schedule[i], usage))
    => rate_val.val = rate_schedule[FirstInRange(rate_schedule, usage)].value

\* C7: for a schedule of two or more tiers none of whose ranges [from, to)
\* contains usage, the call returns the last tier's value.
C7_NoTierFallsBackToLast ==
    (/\ RateReturned
     /\ Len(rate_schedule) >= 2
     /\ \A i \in 1..Len(rate_schedule) : ~InHalfOpenRange(rate_schedule[i], usage))
    => rate_val.val = LastValue(rate_schedule)

\* C8 as stated: whatever the bounds of the earlier tiers, a usage above every
\* bound that occurs in the schedule selects the last tier's value.
C8_AboveAllBoundsSelectsLast ==
    (/\ RateReturned
     /\ Len(rate_schedule) >= 1
     /\ \A i \in 1..Len(rate_schedule) :
            /\ Has(rate_schedule[i], "from") => usage > rate_schedule[i].from
            /\ Has(rate_schedule[i], "to") => usage > rate_schedule[i].to)
    => rate_val.val = LastValue(rate_schedule)

\* Every tier before the last has an upper bound, and usage is above all of them.
AboveEarlierTiers(rs, u) ==
    \A i \in 1..(Len(rs) - 1) : Has(rs[i], "to") /\ u > rs[i].to

\* C8 amended: when every tier before the last has a 'to', every usage above
\* the largest of those 'to' bounds selects the last tier's value.
C8_AboveBoundedEarlierTiersSelectsLast ==
    (/\ RateReturned
     /\ Len(rate_schedule) >= 1
     /\ AboveEarlierTiers(rate_schedule, usage))
    => rate_val.val = LastValue(rate_schedule)

\* C8 witness: two tiers, the first bounded above and exceeded, and the last
\* tier's own range not containing usage either (the fallback is what answers).
C8_Witness ==
    /\ RateReturned
    /\ Len(rate_schedule) = 2
    /\ AboveEarlierTiers(rate_schedule, usage)
    /\ ~InHalfOpenRange(rate_schedule[2], usage)
    /\ rate_schedule[1].value # rate_schedule[2].value
    /\ rate_val.val = rate_schedule[2].value

\* C9: a schedule of exactly one tier yields that tier's value for every usage.
C9_SingleTierIgnoresUsage ==
    (RateReturned /\ Len(rate_schedule) = 1)
    => rate_val.val = rate_schedule[1].value

\* C9 witness: one tier [from, to), called with a usage at or above its 'to'.
C9_Witness ==
    /\ RateReturned
    /\ Len(rate_schedule) = 1
    /\ Has(rate_schedule[1], "from")
    /\ Has(rate_schedule[1], "to")
    /\ usage >= rate_schedule[1].to
    /\ rate_val.val = rate_schedule[1].value

-----------------------------------------------------------------------------
(* Claims about the time-band classifier, checked under SpecBand.          *)

Bands == canonical.time_bands

\* Minutes after midnight of a zero-padded 'HH:MM' string.
MinuteOfDay(hhmm) == (hhmm[1] * 10 + hhmm[2]) * 60 + hhmm[4] * 10 + hhmm[5]

WeekdayOf(t) == <<"mon", "tue", "wed", "thu", "fri", "sat", "sun">>[(t.date % 7) + 1]

\* (i) some range contains the date, bounds inclusive.
SomeRangeContains(band, t) ==
    \E i \in 1..Len(band.date_ranges) :
        LET r == band.date_ranges[i]
        IN  r.from # <<>> /\ r.to # <<>> /\ r.from[1] <= t.date /\ t.date <= r.to[1]

\* (iii) some span satisfies from <= HH:MM < to.
SomeSpanContains(band, t) ==
    \E i \in 1..Len(band.times) :
        LET span == band.times[i]
        IN  /\ Has(span, "from") /\ Has(span, "to")
            /\ MinuteOfDay(span.from) <= t.hour * 60 + t.minute
            /\ t.hour * 60 + t.minute < MinuteOfDay(span.to)

\* The three conditions as the claim words them (the band's days are compared
\* in lower case, as the weekday is).
MatchesAsStated(band, t) ==
    /\ ~Has(band, "date_ranges") \/ SomeRangeContains(band, t)
    /\ \E i \in 1..Len(band.days) : Lower(band.days[i]) \in {"all", WeekdayOf(t)}
    /\ SomeSpanContains(band, t)

\* The three conditions with an empty date_ranges list counted as absent.
MatchesAmended(band, t) ==
    /\ \/ ~Has(band, "date_ranges")
       \/ band.date_ranges = <<>>
       \/ SomeRangeContains(band, t)
    /\ \E i \in 1..Len(band.days) : Lower(band.days[i]) \in {"all", WeekdayOf(t)}
    /\ SomeSpanContains(band, t)

\* C10 as stated: assign_band returns the id of the first band, in declaration
\* order, for which date_ranges is absent or contains the date, days contains
\* 'all' or the weekday, and some span has from <= HH:MM < to; 'off_peak' when
\* no band is such.
C10_FirstBandAsStated ==
    band_id # Pending =>
        /\ band_id.status = "ok"
        /\ IF \E i \in 1..Len(Bands) : MatchesAsStated(Bands[i], ts)
           THEN \E i \in 1..Len(Bands) :
                    /\ MatchesAsStated(Bands[i], ts)
                    /\ \A j \in 1..(i - 1) : ~MatchesAsStated(Bands[j], ts)
                    /\ band_id.val = Bands[i].id
           ELSE band_id.val = "off_peak"

\* C10 amended: the same, with an empty date_ranges list treated like an absent
\* one (the band then matches on every date).
C10_FirstBandAmended ==
    band_id # Pending =>
        /\ band_id.status = "ok"
        /\ IF \E i \in 1..Len(Bands) : MatchesAmended(Bands[i], ts)
           THEN \E i \in 1..Len(Bands) :
                    /\ MatchesAmended(Bands[i], ts)
                    /\ \A j \in 1..(i - 1) : ~MatchesAmended(Bands[j], ts)
                    /\ band_id.val = Bands[i].id
           ELSE band_id.val = "off_peak"

\* C10 witness: at 17:00 the first band's span 09:00-17:00 has just ended, and
\* the second band, restricted to date ranges, is the one returned.
C10_Witness ==
    /\ band_id = Returned("shoulder")
    /\ Len(Bands) = 2
    /\ ts.hour = 17 /\ ts.minute = 0
    /\ Bands[1].times = <<[from |-> FormatHHMM(9, 0), to |-> FormatHHMM(17, 0)]>>
    /\ ~Has(Bands[1], "date_ranges")
    /\ Has(Bands[2], "date_ranges")
    /\ Bands[2].date_ranges # <<>>


-----------------------------------------------------------------------------
(* Claims about the billing orchestrator, checked under Spec.              *)

Stored == req.tariff_version_id \in DOMAIN tariff_versions

Components == tariff_versions[req.tariff_version_id].components

\* The names a component's formula may use: the base variables, 'rate' and
\* 'loss_factor', and the whitelisted functions.
FormulaNames ==
    DOMAIN BaseVars(req, Aggregate(req, tariff_versions[req.tariff_version_id], meter_readings))
        \cup {"rate", "loss_factor"} \cup AllowedFuncs

\* The component's calculation references a variable outside the environment.
ReferencesUndefined(comp) ==
    /\ Has(comp, "calculation")
    /\ \E node \in Walk(comp.calculation) : node.k = "Name" /\ node.id \notin FormulaNames

\* The tariff versions with the components that reference an undefined
\* variable taken out of the requested tariff.
WithoutUndefined ==
    [tariff_versions EXCEPT ![req.tariff_version_id].components =
        SelectSeq(Components, LAMBDA comp : ~ReferencesUndefined(comp))]

\* C1: a component whose calculation references a variable that is not in the
\* formula environment is absent from the breakdown, and the bill (total_cost
\* and every other component's entry) is the bill of the same tariff without
\* that component.
C1_UndefinedVariableComponentExcluded ==
    (result # Pending /\ Stored) =>
        /\ result.status = "ok" =>
              \A i \in 1..Len(Components) :
                  (Has(Components[i], "id") /\ ReferencesUndefined(Components[i]))
                  => Components[i].id \notin DOMAIN result.val.breakdown
        /\ result = CalculateBill(req, WithoutUndefined, meter_readings)

\* C2: when the tariff version does not exist, or the customer has no reading
\* in [start, end), the call signals a failure: it returns no bill.
C2_StructuralFailureNotMasked ==
    (result # Pending /\ (~Stored \/ ReadingsOf(req, meter_readings) = {}))
    => result = Raised

\* C3: whatever fails for a single component, the call does not raise: it
\* returns a bill.
C3_ComponentFailureNeverRaises ==
    (result # Pending /\ Stored) => result.status = "ok"


-----------------------------------------------------------------------------
(* Claims about the unit conversion, checked under SpecParse.              *)

\* The unit string as the code matches it: stripped and lower-cased.
Normalized == StrLower(StrStrip(parse_args.unit[1]))

\* The value, divided by 100 when the unit begins with 'c/'.
CentConverted ==
    IF parse_args.unit # <<>> /\ StartsWith(Normalized, <<"c", "/">>)
    THEN Q(parse_args.value, 100)
    ELSE Int2Q(parse_args.value)

PerMonth ==
    /\ parse_args.unit # <<>>
    /\ EndsWith(Normalized, <<"/", "m", "t", "h">>) \/ EndsWith(Normalized, <<"/", "m", "o", "n", "t", "h">>)

PerYear == parse_args.unit # <<>> /\ EndsWith(Normalized, <<"/", "y", "e", "a", "r">>)

\* Days of the calendar month of a day number, from the month's first days:
\* the distance between the first day of the month and of the next one.
DaysInMonthOf(dayno) ==
    LET SameMonth(d) == YearMonth(d) = YearMonth(dayno)
    IN  Cardinality({d \in (dayno - 31)..(dayno + 31) : SameMonth(d)})

\* C11: the value is divided by 100 exactly when the unit begins with 'c/',
\* and for a unit ending in /kwh or /day, an unrecognized unit and no unit it
\* is returned so converted, whatever days and the billing start date are.
C11_CentsAndFlatUnits ==
    (parse_out # Pending /\ ~PerMonth /\ ~PerYear) => parse_out = Returned(CentConverted)

\* C11 witness: 'c/kWh' with value 25 over more than one day gives 0.25.
C11_Witness ==
    /\ parse_out = Returned(Q(25, 100))
    /\ parse_args.unit = <<<<"c", "/", "k", "W", "h">>>>
    /\ parse_args.value = 25
    /\ parse_args.days > 1

\* C12: a unit ending in /mth or /month gives value * days / (days of the
\* calendar month of the billing start date), and a unit ending in /year gives
\* value * days / 365 in every year.
C12_PeriodicUnitsProrated ==
    parse_out # Pending =>
        /\ PerMonth =>
              parse_out = Returned(QMul(CentConverted,
                                        Q(parse_args.days, DaysInMonthOf(parse_args.billing_start))))
        /\ PerYear => parse_out = Returned(QMul(CentConverted, Q(parse_args.days, 365)))

\* C12 witness: '$/kVA/Mth', value 10, 15 days from 2024-02-01 gives 10 * 15/29.
C12_Witness ==
    /\ parse_out = Returned(Q(150, 29))
    /\ parse_args.unit = <<<<"$", "/", "k", "V", "A", "/", "M", "t", "h">>>>
    /\ parse_args.billing_start = 31
    /\ parse_args.days = 15

\* The unit string without its blanks.
RECURSIVE RemoveSpaces(_)
RemoveSpaces(u) ==
    IF u = <<>> THEN u
    ELSE IF Head(u) = " " THEN RemoveSpaces(Tail(u))
    ELSE <<Head(u)>> \o RemoveSpaces(Tail(u))

\* C13: the result does not depend on letter case or on blanks in the unit:
\* a unit converts like the same unit written in lower case without blanks.
C13_CaseAndSpaceInsensitive ==
    (parse_out # Pending /\ parse_args.unit # <<>>) =>
        parse_out = Returned(ParseRate(<<StrLower(RemoveSpaces(parse_args.unit[1]))>>,
                                       parse_args.value, parse_args.days, parse_args.billing_start))


-----------------------------------------------------------------------------
(* Claims about repeated runs, checked under SpecTwice.                    *)

\* C14: two runs for the same customer, tariff version and period, with the
\* tariff document and the readings unchanged in between, give the same
\* checksum and the same result.
C14_TwoRunsAgree ==
    Len(runs) = 2 => runs[1] = runs[2]


-----------------------------------------------------------------------------
(* Claims about the result store, checked under SpecStore (one API call    *)
(* at a time).                                                             *)

\* The step is an API call that ran upsert_calc_run.
UpsertStep == call' # call /\ call'.upserted

\* The row's stored checksum, start and end equal those of the call.
StoredEquals(row, rq, checksum) ==
    /\ Has(row, "result_summary_json")
    /\ row.result_summary_json._meta.checksum = checksum
    /\ row.result_summary_json._meta.start = StrDatetime(rq.start)
    /\ row.result_summary_json._meta.end = StrDatetime(rq.end)

\* What C15 says of one upsert_calc_run call, from the table before (calc_runs)
\* to the table after (calc_runs') and the id returned.
UpsertAsStated ==
    LET rq == call'.req
        latest == LatestRun(calc_runs, rq.customer_id, rq.tariff_version_id)
        id == call'.response.val.calc_run_id
    IN  IF latest # 0 /\ StoredEquals(calc_runs[latest], rq, call'.checksum)
        THEN calc_runs' = calc_runs /\ id = latest
        ELSE /\ Len(calc_runs') = Len(calc_runs) + 1
             /\ SubSeq(calc_runs', 1, Len(calc_runs)) = calc_runs
             /\ id = Len(calc_runs')
             /\ calc_runs'[id].id = id
             /\ calc_runs'[id].customer_id = rq.customer_id
             /\ calc_runs'[id].tariff_version_id = rq.tariff_version_id
             /\ calc_runs'[id].status = "completed"
             /\ StoredEquals(calc_runs'[id], rq, call'.checksum)
             /\ calc_runs'[id].result_summary_json.result = call'.response.val.result

StoredAnswerStep == call' # call /\ call'.handler = "get_bill" /\ ~call'.upserted

\* C16: get_bill returns a stored result in place of a fresh calculation only
\* when the row's stored period is the request's and its stored checksum is
\* the checksum of the request over the tariff and readings as they are now.
C16_StoredResultOnlyWhenSame ==
    [][StoredAnswerStep =>
          LET rq == call'.req
              row == calc_runs[call'.response.val.calc_run_id]
          IN  \E seq \in RowsInOrder(rq, meter_readings) :
                  StoredEquals(row, rq, ComputeChecksum(rq, tariff_versions, seq))]_vars


-----------------------------------------------------------------------------
(* Claims about concurrent writers, checked under SpecWriters.             *)

\* Rows i and j are of one customer and tariff version and store the same
\* checksum and period.
DuplicateRuns(i, j) ==
    /\ i < j
    /\ calc_runs[i].customer_id = calc_runs[j].customer_id
    /\ calc_runs[i].tariff_version_id = calc_runs[j].tariff_version_id
    /\ calc_runs[i].result_summary_json._meta = calc_runs[j].result_summary_json._meta

\* No row of the same customer and tariff version lies between rows i and j.
Consecutive(i, j) ==
    \A k \in (i + 1)..(j - 1) :
        \/ calc_runs[k].customer_id # calc_runs[i].customer_id
        \/ calc_runs[k].tariff_version_id # calc_runs[i].tariff_version_id

\* C17: duplicate rows for one (customer, tariff_version, checksum, period)
\* arise only when the calls were not serialized: some call read the newest
\* row while another had read it and not yet committed.
C17_DuplicatesOnlyIfUnserialized ==
    (\E i, j \in 1..Len(calc_runs) : DuplicateRuns(i, j)) => overlapped

\* C17 amended: the same for duplicates that are consecutive rows of their
\* customer and tariff version (no run with another checksum or period was
\* stored in between).
C17_ConsecutiveDuplicatesOnlyIfUnserialized ==
    (\E i, j \in 1..Len(calc_runs) : DuplicateRuns(i, j) /\ Consecutive(i, j)) => overlapped

\* C17 witness: two calls with the same checksum and period interleaved, both
\* read before either committed, and both appended: rows 1 and 2 are duplicates.
C17_Witness ==
    /\ Len(calc_runs) = 2
    /\ DuplicateRuns(1, 2)
    /\ overlapped
    /\ \A w \in Writers : writers[w].pc = "idle"


-----------------------------------------------------------------------------
(* Further claims about the billing orchestrator, checked under Spec.      *)

\* The tariff has exactly one component: unit c/kWh, a single tier, applied to
\* the total usage, calculation rate*total_usage*loss_factor, no loss_factor.
SingleEnergyTariff ==
    /\ Stored
    /\ Len(Components) = 1
    /\ Has(Components[1], "id")
    /\ Components[1].unit = CentsPerKWh
    /\ Len(Components[1].rate_schedule) = 1
    /\ Has(Components[1].rate_schedule[1], "value")
    /\ Applies(Components[1]) = {"usage_total"}
    /\ Has(Components[1], "calculation")
    /\ Components[1].calculation = UsageFormula
    /\ ~Has(Components[1], "loss_factor")
    /\ ~Has(Components[1], "season")

\* The kWh of the customer's readings in [start, end).
TotalKwh == SumKwh(ReadingsOf(req, meter_readings))

\* C18: for such a tariff with tier value v and readings totalling U kWh the
\* breakdown holds exactly that component with cost (v/100) * U, units_used U
\* and unit_label 'kWh', and total_cost is that cost.
C18_SingleEnergyComponentBill ==
    (result # Pending /\ SingleEnergyTariff) =>
        LET cost == Q(Components[1].rate_schedule[1].value * TotalKwh, 100)
        IN  result = Returned([total_cost |-> cost,
                               breakdown |-> [id \in {Components[1].id} |->
                                                [units_used |-> Int2Q(TotalKwh),
                                                 unit_label |-> "kWh",
                                                 cost |-> cost]],
                               units |-> "AUD"])

\* C18 witness: tier value 10 c/kWh and readings totalling 15 kWh give 1.5.
C18_Witness ==
    /\ SingleEnergyTariff
    /\ Components[1].rate_schedule[1].value = 10
    /\ TotalKwh = 15
    /\ result # Pending
    /\ result.val.total_cost = Q(3, 2)


-----------------------------------------------------------------------------
(* Claims about seasonal components, checked under SpecSeason.             *)

\* The days that [start, end) holds a moment of.
PeriodDays ==
    {d \in 0..(MaxDay + 2) : Minutes(req.start) < (d + 1) * 1440 /\ Minutes(req.end) > d * 1440}

Season == Components[1].season

SeasonParses == DateParses(Season, "from") /\ DateParses(Season, "to")

\* C19: the seasonal component is skipped (absent from the breakdown, nothing
\* added to total_cost) exactly when no day of the end-exclusive period
\* [start, end) lies in the inclusive window [season.from, season.to]; with a
\* season date missing or malformed the component always applies.  (Windows
\* whose 'to' is before their 'from' are left aside.)
C19_SeasonSkipsExactlyOutsideWindow ==
    (result # Pending /\ (SeasonParses => Season.from[1] <= Season.to[1])) =>
        LET outside == /\ SeasonParses
                       /\ \A d \in PeriodDays : d < Season.from[1] \/ d > Season.to[1]
            skipped == /\ "summer" \notin DOMAIN result.val.breakdown
                       /\ result.val.total_cost = Int2Q(0)
        IN  /\ outside => skipped
            /\ ~outside => "summer" \in DOMAIN result.val.breakdown


(***************************************************************************)
(* Claims about the usage buckets, checked under SpecBuckets.              *)
(***************************************************************************)
PeakIds == {"peak", "usage_peak", "retail_peak", "network_peak"}
ShoulderIds == {"shoulder", "usage_shoulder", "retail_shoulder", "network_shoulder"}

\* The readings of the request's customer and period.
Billed == ReadingsOf(req, meter_readings)

\* The id assign_band gives a reading, lower-cased.
BandOf(r) == Lower(AssignBand(r.timestamp, tariff_versions[req.tariff_version_id]))

PeakReadings == {r \in Billed : BandOf(r) \in PeakIds}
ShoulderReadings == {r \in Billed : BandOf(r) \in ShoulderIds}
OffPeakReadings == {r \in Billed : BandOf(r) \notin PeakIds \cup ShoulderIds}

\* What the probe component 'id' of the bucket tariff reported.
Reported(id) == result.val.breakdown[id].cost

\* C20: every reading of the period is added to total_usage and to exactly one
\* of the three buckets, chosen from its band id without regard to case: the
\* four peak ids go to peak_usage, the four shoulder ids to shoulder_usage,
\* every other id to off_peak_usage; so the three buckets sum to total_usage.
C20_EachReadingInOneBucket ==
    result # Pending =>
        /\ result.status = "ok"
        /\ Reported("total") = Int2Q(SumKwh(Billed))
        /\ Reported("peak") = Int2Q(SumKwh(PeakReadings))
        /\ Reported("shoulder") = Int2Q(SumKwh(ShoulderReadings))
        /\ Reported("off_peak") = Int2Q(SumKwh(OffPeakReadings))
        /\ QAdd(QAdd(Reported("peak"), Reported("shoulder")), Reported("off_peak")) = Reported("total")

\* C20 witness: a bill whose three readings fell in three different buckets,
\* the peak and the shoulder one through ids not written in lower case.
C20_Witness ==
    /\ result # Pending
    /\ tariff_versions[1].time_bands = <<MorningBand("Network_Peak"), EveningBand("Retail_Shoulder")>>
    /\ Reported("peak") = Int2Q(3)
    /\ Reported("shoulder") = Int2Q(5)
    /\ Reported("off_peak") = Int2Q(7)
    /\ Reported("total") = Int2Q(15)


(***************************************************************************)
(* Claims about the variables exposed to formulas, checked under SpecVars. *)
(***************************************************************************)
Tariff == tariff_versions[req.tariff_version_id]

Breakdown == result.val.breakdown

\* C21: each of the four network-prefixed usage variables (peak, off-peak,
\* shoulder, total) is available to a formula and equals its retail
\* counterpart: a component whose formula is the network variable is billed,
\* at the cost of the component whose formula is the retail variable.
C21_NetworkMirrorsRetail ==
    result # Pending =>
        \A pair \in NetworkPairs :
            Tariff = PairTariff(pair) =>
                /\ pair[1] \in DOMAIN Breakdown
                /\ pair[2] \in DOMAIN Breakdown
                /\ Breakdown[pair[1]].cost = Breakdown[pair[2]].cost

\* The three network variables of base_vars do mirror their counterparts.
NetworkMirrorsRetailButShoulder ==
    result # Pending =>
        \A pair \in NetworkPairs \ {<<"network_shoulder_usage", "shoulder_usage">>} :
            Tariff = PairTariff(pair) =>
                /\ pair[1] \in DOMAIN Breakdown
                /\ pair[2] \in DOMAIN Breakdown
                /\ Breakdown[pair[1]].cost = Breakdown[pair[2]].cost


\* max(1, whole days from start's date to end's date).
WholeDays == req.end.date - req.start.date
DaysAsStated == IF WholeDays > 1 THEN WholeDays ELSE 1

\* C22: the days variable a formula sees, and the days a yearly rate is
\* prorated by, equal max(1, whole days from start's date to end's date): at
\* least 1 for every period, also within one day or with end before start.
C22_DaysAtLeastOne ==
    (result # Pending /\ Tariff = DaysTariff) =>
        /\ DaysAsStated >= 1
        /\ Breakdown["days"].cost = Int2Q(DaysAsStated)
        /\ Breakdown["per_year"].cost = Int2Q(DaysAsStated)

\* C22 witness: a period whose end lies two days before its start is billed
\* with days = 1.
C22_Witness ==
    /\ result # Pending
    /\ Tariff = DaysTariff
    /\ WholeDays = -2
    /\ Breakdown["days"].cost = Int2Q(1)
    /\ Breakdown["per_year"].cost = Int2Q(1)

\* C25: a component is in the breakdown only if its cost is positive.
C25_OnlyPositiveCostsBilled ==
    result # Pending =>
        \A id \in DOMAIN Breakdown : QLess(Int2Q(0), Breakdown[id].cost)

\* The tags of the demand component of the tariff, if it is a demand tariff.
IsDemandTariff == \E tags \in DemandTagsDrawn : Tariff = DemandTariff(tags)

\* C30: max_kva and incentive_kva are 0 whatever the readings; a component
\* whose applies_to selects 'demand' or 'incentive_demand' has its tier
\* selected for usage 0 (of the tiers up to 5 at 20 and from 5 at 30, the
\* first) and is reported with units_used 0 and unit_label 'kVA'.
C30_DemandIsZero ==
    (result # Pending /\ IsDemandTariff) =>
        /\ Breakdown["max_kva"].cost = Int2Q(0)
        /\ Breakdown["incentive_kva"].cost = Int2Q(0)
        /\ Breakdown["demand_charge"] =
              [units_used |-> Int2Q(0), unit_label |-> "kVA", cost |-> Int2Q(20)]

\* C30 witness: 15 kWh were read in the period, and the demand component is
\* billed at the tier for usage 0.
C30_Witness ==
    /\ result # Pending
    /\ IsDemandTariff
    /\ SumKwh(Billed) = 15
    /\ Breakdown["demand_charge"].cost = Int2Q(20)
    /\ Breakdown["demand_charge"].units_used = Int2Q(0)


(***************************************************************************)
(* Claim about chained comparisons, checked under SpecEval.                *)
(***************************************************************************)

\* A chained comparison as Python evaluates it, from pair i on: the comparator
\* is evaluated, the pair compared, and the chain ends at the first pair that
\* is false without evaluating what follows.
RECURSIVE ShortCircuit(_, _, _, _)
ShortCircuit(left, node, i, env) ==
    IF i > Len(node.ops) THEN Bool2Q(TRUE)
    ELSE LET right == Eval(node.comparators[i], env)
             holds == ApplyCompare(node.ops[i], left, right)
         IN  IF right = Exc THEN Exc
             ELSE IF holds = Exc THEN Exc
             ELSE IF ~Truthy(holds) THEN Bool2Q(FALSE)
             ELSE ShortCircuit(right, node, i + 1, env)

\* C23: a chained comparison is true iff every adjacent pair holds, and it
\* short-circuits per pair: once a pair is false the remaining comparators are
\* not evaluated, so an error in a later comparator does not fail the
\* expression.
C23_ChainShortCircuits ==
    (eval_out # Pending /\ expr.k = "Compare") =>
        LET left == Eval(expr.left, variables)
            chain == IF left = Exc THEN Exc ELSE ShortCircuit(left, expr, 1, variables)
        IN  eval_out = IF chain = Exc THEN Raised ELSE Returned(chain)

\* Apart from an error raised after a false pair, chains evaluate as stated.
ChainAgreesUnlessLateError ==
    (eval_out # Pending /\ expr.k = "Compare") =>
        LET left == Eval(expr.left, variables)
            chain == IF left = Exc THEN Exc ELSE ShortCircuit(left, expr, 1, variables)
        IN  \/ eval_out = IF chain = Exc THEN Raised ELSE Returned(chain)
            \/ /\ eval_out = Raised
               /\ chain = Bool2Q(FALSE)
               /\ Len(expr.ops) > 1


(***************************************************************************)
(* Claim about the energy buckets, checked under SpecResample.             *)
(***************************************************************************)

\* The bins that contain at least one row of df.
HeldBins == {BinOf(df[i].timestamp) : i \in 1..Len(df)}

\* C24: the frame returned has one row for each left-closed 30-minute bucket
\* that contains at least one reading, carrying the sum of the bucket's
\* readings; a bucket containing no reading is absent, not present with 0.
C24_OnlyHeldBucketsReturned ==
    resampled # Pending =>
        /\ DOMAIN resampled.val = HeldBins
        /\ \A b \in HeldBins : resampled.val[b] = BinSum(df, b, 1)

\* The buckets that hold a reading are returned with their sums, and every
\* other bucket returned lies between two of them and carries 0.
HeldBucketsReturnedAmongZeros ==
    resampled # Pending =>
        /\ HeldBins \subseteq DOMAIN resampled.val
        /\ \A b \in HeldBins : resampled.val[b] = BinSum(df, b, 1)
        /\ \A b \in DOMAIN resampled.val \ HeldBins : resampled.val[b] = 0


(***************************************************************************)
(* Claim about the stored checksum, checked under SpecRace.                *)
(***************************************************************************)

\* Row i stores the checksum and the result of request rq over the readings
\* 'readings' (and the tariff document, which never changes).
StoredFrom(i, rq, readings) ==
    /\ \E seq \in RowsInOrder(rq, readings) :
          StoredEquals(calc_runs[i], rq, ComputeChecksum(rq, tariff_versions, seq))
    /\ calc_runs[i].result_summary_json.result = CalculateBill(rq, tariff_versions, readings).val

\* C26: in every row written by calculate_and_store the stored checksum is the
\* checksum of the tariff document and the readings from which the stored
\* result was computed, also when readings are inserted while the call runs.
C26_ChecksumCoversBilledReadings ==
    \A i \in 1..Len(calc_runs) :
        \E rq \in StoreRequests : \E readings \in SUBSET StoreReadings :
            StoredFrom(i, rq, readings)

(***************************************************************************)
(* Claims about serialized calls, checked under SpecStore.                 *)
(***************************************************************************)

\* Rows i < j both store a result, are of one customer and tariff version,
\* and store the same (checksum, start, end).
SameTriple(i, j) ==
    /\ i < j
    /\ Has(calc_runs[i], "result_summary_json")
    /\ Has(calc_runs[j], "result_summary_json")
    /\ calc_runs[i].customer_id = calc_runs[j].customer_id
    /\ calc_runs[i].tariff_version_id = calc_runs[j].tariff_version_id
    /\ calc_runs[i].result_summary_json._meta = calc_runs[j].result_summary_json._meta

\* C27: after any serialized sequence of calls, no two rows of one customer
\* and tariff version that are adjacent in id order carry the same (checksum,
\* start, end).
C27_NoAdjacentSameTriple ==
    \A i, j \in 1..Len(calc_runs) : ~(SameTriple(i, j) /\ Consecutive(i, j))

\* C27 witness: requests A, B and A again stored three rows of one customer
\* and tariff version; the first and the third carry the same triple.
C27_Witness ==
    /\ Len(calc_runs) = 3
    /\ SameTriple(1, 3)
    /\ ~SameTriple(1, 2)
    /\ Has(calc_runs[2], "result_summary_json")
    /\ calc_runs[2].customer_id = calc_runs[1].customer_id
    /\ calc_runs[2].tariff_version_id = calc_runs[1].tariff_version_id


(***************************************************************************)
(* Claim about breakdown and total, checked under SpecMix.                 *)
(***************************************************************************)

\* The aggregates of the request.
Agg == Aggregate(req, Tariff, meter_readings)

\* The value of a component's formula: its rate resolved for the usage its
\* applies_to selects, then the formula in the environment of the call.
CostOf(comp) ==
    LET sched == IF Has(comp, "rate_schedule") THEN comp.rate_schedule ELSE <<>>
        rate == ParseRate(IF Has(comp, "unit") THEN <<comp.unit>> ELSE <<>>,
                          SelectRateValue(sched, UsageForTier(Applies(comp), Agg)),
                          Agg.days, req.start.date)
        base == BaseVars(req, Agg)
        env == [name \in DOMAIN base \cup {"rate", "loss_factor"} |->
                    IF name = "rate" THEN rate
                    ELSE IF name = "loss_factor"
                         THEN IF Has(comp, "loss_factor") THEN Int2Q(comp.loss_factor) ELSE Int2Q(1)
                    ELSE base[name]]
    IN  SafeEval(comp.calculation, env)

\* The component has an id, is not skipped by the season check, has a
\* calculation, and the calculation evaluates without error.
Counted(comp) ==
    /\ Has(comp, "id")
    /\ ~SeasonSkips(comp, req)
    /\ Has(comp, "calculation")
    /\ CostOf(comp) # Raised

\* The costs of the counted components from the i-th on, added up.
RECURSIVE SumOfCosts(_)
SumOfCosts(i) ==
    IF i > Len(Components) THEN Int2Q(0)
    ELSE IF Counted(Components[i]) THEN QAdd(CostOf(Components[i]).val, SumOfCosts(i + 1))
    ELSE SumOfCosts(i + 1)

UniqueIds ==
    \A i, j \in 1..Len(Components) :
        (i # j /\ Has(Components[i], "id") /\ Has(Components[j], "id"))
        => Components[i].id # Components[j].id

StoreTables == <<tariff_versions, meter_readings, calc_runs>>

\* Worker w runs compute_checksum / calculate_bill in this step, or its
\* upsert_calc_run returns the id of the row it read.
ChecksumStep(w) == writers[w].pc = "idle" /\ writers'[w].pc = "bill"
BillStep(w) == writers[w].pc = "bill" /\ writers'[w].pc = "select"
ReuseStep(w) == writers[w].pc = "select" /\ writers'[w].pc = "idle"

\* C29: compute_checksum and calculate_bill leave every tariff version, meter
\* reading and calc_run row as it was, and so does upsert_calc_run when it
\* returns the id of an existing row.
C29_ReadsLeaveStoreUnchanged ==
    [][\A w \in Writers :
          (ChecksumStep(w) \/ BillStep(w) \/ ReuseStep(w)) => StoreTables' = StoreTables]_vars

\* C29 witness: a worker has computed checksum and bill and is in
\* upsert_calc_run, where the newest row of its customer and tariff version
\* stores its checksum and period: the call returns that row's id.
C29_Witness ==
    \E w \in Writers :
        /\ writers[w].pc = "select"
        /\ SameRun(calc_runs,
                   LatestRun(calc_runs, writers[w].req.customer_id, writers[w].req.tariff_version_id),
                   writers[w].req, writers[w].checksum)

=============================================================================
